---- MODULE Spec2Model ----
(***************************************************************************)
(* SuiteMate (suite-crafter): a five-step configuration wizard that plans  *)
(* a folder tree, generates file contents and exports them as a zip.       *)
(*                                                                         *)
(* Strings that the code inspects character by character (the project      *)
(* name, the generated paths) are sequences of one-character strings, so   *)
(* that toLowerCase, the regular expressions and Array.prototype.sort are  *)
(* computed as the code computes them.  Enumeration values that the code   *)
(* only compares for equality are TLA+ strings.                            *)
(*                                                                         *)
(* Five specifications share the variables:                                *)
(*   Spec        the wizard: the handlers of ConfigWizard and of the steps *)
(*   GenSpec     generateFolderTree / generateFiles over all configurations*)
(*   ExportSpec  the step-5 session of StepGenerate (ExportLiveSpec: with  *)
(*               every archive call settling)                              *)
(*   NameSpec    handleNameChange over bounded typed values                *)
(*   TreeSpec    buildTree of the preview over the generated paths         *)
(***************************************************************************)
EXTENDS Integers, Sequences, FiniteSets, TLC

VARIABLES
    currentStep,    \* ConfigWizard: useState(1)
    config,         \* ConfigWizard: useState<Partial<ProjectConfig>>(defaultConfig)
    errors,         \* ConfigWizard: useState<Record<string,string>>({})
    isGenerating,   \* StepGenerate: useState(false)
    isComplete,     \* StepGenerate: useState(false)
    zipCall,        \* the generateAndDownloadZip call awaited by the mounted StepGenerate: none, pending,
                    \* saved (fulfilled, handleGenerate not yet resumed), failed (rejected,
                    \* handleGenerate not yet resumed), fulfilled, rejected
    orphanCalls,    \* generateAndDownloadZip promises still pending whose StepGenerate was unmounted
    handed,         \* what the calls of the mounted StepGenerate handed to the exporter (zip.file, saveAs)
    saveCalls,      \* number of saveAs calls made by the call that the mounted StepGenerate awaits
    compressed,     \* zip.generateAsync of that call has resolved
    folderTree,     \* GenSpec: result of generateFolderTree(config), or NotComputed
    files,          \* GenSpec: result of generateFiles(config), or NotComputed
    tree,           \* FolderTree: result of buildTree(paths), or NoTree
    locale          \* the default locale of the host, read by localeCompare in FolderTree

vars == <<currentStep, config, errors, isGenerating, isComplete, zipCall,
          orphanCalls, handed, saveCalls, compressed, folderTree, files, tree, locale>>

wizardVars == <<currentStep, config, errors>>
exportVars == <<isGenerating, isComplete, zipCall, orphanCalls, handed, saveCalls,
               compressed>>
genVars    == <<folderTree, files, tree, locale>>

-----------------------------------------------------------------------------
(* Bounds *)

\* pending calls of unmounted StepGenerate instances that are tracked
MaxOrphanCalls == 1

\* NameSpec: length of the values typed into the project-name input
MaxTypedLen == 3

\* TreeSpec: how many places the rearrangements of a list of paths move its
\* first paths
MaxShift == 2

-----------------------------------------------------------------------------
(* src/lib/types.ts *)

undefined == "undefined"

Languages == {"typescript", "java", "python"}

\* ProjectConfigSchema.projectName: .max(50, ...)
MaxProjectNameLength == 50

validCombinations ==
    [typescript |->
        [buildTools    |-> <<"npm", "pnpm">>,
         uiFrameworks  |-> <<"playwright">>,
         apiFrameworks |-> <<"playwright-api", "axios">>,
         testRunners   |-> <<"playwright-test">>,
         reporting     |-> <<"html", "junit-xml">>],
     java |->
        [buildTools    |-> <<"maven", "gradle">>,
         uiFrameworks  |-> <<"selenium">>,
         apiFrameworks |-> <<"rest-assured">>,
         testRunners   |-> <<"junit", "testng">>,
         reporting     |-> <<"allure", "surefire", "junit-xml">>],
     python |->
        [buildTools    |-> <<"pip", "poetry">>,
         uiFrameworks  |-> <<"playwright", "selenium">>,
         apiFrameworks |-> <<"requests">>,
         testRunners   |-> <<"pytest">>,
         reporting     |-> <<"pytest-html", "junit-xml", "allure">>]]

\* Array.prototype.includes
includes(seq, x) == \E i \in 1..Len(seq) : seq[i] = x

Range(seq) == {seq[i] : i \in 1..Len(seq)}

\* defaultConfig; apiFramework is absent from the object literal
defaultConfig ==
    [projectName      |-> <<>>,
     description      |-> "",
     author           |-> "",
     initGit          |-> TRUE,
     includeUI        |-> TRUE,
     includeAPI       |-> FALSE,
     language         |-> "typescript",
     buildTool        |-> "npm",
     uiFramework      |-> "playwright",
     apiFramework     |-> undefined,
     testRunner       |-> "playwright-test",
     reporting        |-> <<"html">>,
     includeEnvConfig |-> TRUE,
     includeCI        |-> FALSE,
     includeDocker    |-> FALSE]

-----------------------------------------------------------------------------
(* Characters *)

\* UTF-16 code unit of the characters used in project names and paths: the
\* printable ASCII characters, and five characters outside ASCII that are
\* written by their code point
CodeUnit ==
    " " :> 32 @@ "!" :> 33 @@ "#" :> 35 @@ "$" :> 36 @@ "%" :> 37 @@ "&" :> 38 @@
    "'" :> 39 @@ "(" :> 40 @@ ")" :> 41 @@ "*" :> 42 @@ "+" :> 43 @@ "," :> 44 @@
    "-" :> 45 @@ "." :> 46 @@ "/" :> 47 @@ "0" :> 48 @@ "1" :> 49 @@ "2" :> 50 @@
    "3" :> 51 @@ "4" :> 52 @@ "5" :> 53 @@ "6" :> 54 @@ "7" :> 55 @@ "8" :> 56 @@
    "9" :> 57 @@ ":" :> 58 @@ ";" :> 59 @@ "<" :> 60 @@ "=" :> 61 @@ ">" :> 62 @@
    "?" :> 63 @@ "@" :> 64 @@ "A" :> 65 @@ "B" :> 66 @@ "C" :> 67 @@ "D" :> 68 @@
    "E" :> 69 @@ "F" :> 70 @@ "G" :> 71 @@ "H" :> 72 @@ "I" :> 73 @@ "J" :> 74 @@
    "K" :> 75 @@ "L" :> 76 @@ "M" :> 77 @@ "N" :> 78 @@ "O" :> 79 @@ "P" :> 80 @@
    "Q" :> 81 @@ "R" :> 82 @@ "S" :> 83 @@ "T" :> 84 @@ "U" :> 85 @@ "V" :> 86 @@
    "W" :> 87 @@ "X" :> 88 @@ "Y" :> 89 @@ "Z" :> 90 @@ "[" :> 91 @@ "]" :> 93 @@
    "^" :> 94 @@ "_" :> 95 @@ "a" :> 97 @@ "b" :> 98 @@ "c" :> 99 @@ "d" :> 100 @@
    "e" :> 101 @@ "f" :> 102 @@ "g" :> 103 @@ "h" :> 104 @@ "i" :> 105 @@ "j" :> 106 @@
    "k" :> 107 @@ "l" :> 108 @@ "m" :> 109 @@ "n" :> 110 @@ "o" :> 111 @@ "p" :> 112 @@
    "q" :> 113 @@ "r" :> 114 @@ "s" :> 115 @@ "t" :> 116 @@ "u" :> 117 @@ "v" :> 118 @@
    "w" :> 119 @@ "x" :> 120 @@ "y" :> 121 @@ "z" :> 122 @@ "{" :> 123 @@ "|" :> 124 @@
    "}" :> 125 @@ "~" :> 126 @@ "U+00C9" :> 201 @@ "U+00E9" :> 233 @@ "U+0130" :> 304 @@ "U+0307" :> 775 @@
    "U+212A" :> 8490

UpperCase == <<"A","B","C","D","E","F","G","H","I","J","K","L","M",
               "N","O","P","Q","R","S","T","U","V","W","X","Y","Z">>
LowerCase == <<"a","b","c","d","e","f","g","h","i","j","k","l","m",
               "n","o","p","q","r","s","t","u","v","w","x","y","z">>
Digits    == {"0","1","2","3","4","5","6","7","8","9"}

\* the character class [a-z0-9-]
SlugChars == Range(LowerCase) \cup Digits \cup {"-"}

\* String.prototype.toLowerCase, one character: the code units of its
\* lowercase mapping.  Outside A-Z the characters of CodeUnit with a mapping
\* are U+00C9 (to U+00E9), U+0130 (to i followed by U+0307, two code units)
\* and U+212A KELVIN SIGN (to k)
toLowerCaseChar(ch) ==
    IF \E i \in 1..26 : UpperCase[i] = ch
    THEN <<LowerCase[CHOOSE i \in 1..26 : UpperCase[i] = ch]>>
    ELSE IF ch = "U+00C9" THEN <<"U+00E9">>
    ELSE IF ch = "U+0130" THEN <<"i", "U+0307">>
    ELSE IF ch = "U+212A" THEN <<"k">>
    ELSE <<ch>>

\* value.toLowerCase()
RECURSIVE toLowerCase(_)
toLowerCase(s) ==
    IF Len(s) = 0 THEN <<>>
    ELSE toLowerCaseChar(s[1]) \o toLowerCase(Tail(s))

\* s.replace(/[^a-z0-9-]/g, '-')
replaceDisallowed(s) == [i \in 1..Len(s) |-> IF s[i] \in SlugChars THEN s[i] ELSE "-"]

\* s.replace(/-+/g, '-')
RECURSIVE collapseHyphens(_)
collapseHyphens(s) ==
    IF Len(s) = 0 THEN <<>>
    ELSE IF Len(s) >= 2 /\ s[1] = "-" /\ s[2] = "-"
         THEN collapseHyphens(Tail(s))
         ELSE <<s[1]>> \o collapseHyphens(Tail(s))

\* /^[a-z0-9-]+$/.test(s)
matchesSlugPattern(s) == Len(s) >= 1 /\ \A i \in 1..Len(s) : s[i] \in SlugChars

\* with the two replacements in the other order
slugify_CollapseFirst(value) == replaceDisallowed(collapseHyphens(toLowerCase(value)))

\* StepBasics.handleNameChange: the slug handed to onChange
slugify(value) == collapseHyphens(replaceDisallowed(toLowerCase(value)))

-----------------------------------------------------------------------------
(* src/components/wizard/ConfigWizard.tsx *)

NoErrors == [k \in {} |-> ""]

\* { ...prev, ...updates } for a record of updates
merge(prev, updates) ==
    [k \in DOMAIN prev |-> IF k \in DOMAIN updates THEN updates[k] ELSE prev[k]]

\* errorKeys.forEach(key => delete next[key])
clearErrors(prev, updates) ==
    [k \in (DOMAIN prev) \ (DOMAIN updates) |-> prev[k]]

\* updateConfig(updates)
updateConfig(updates) ==
    /\ config' = merge(config, updates)
    /\ errors' = clearErrors(errors, updates)

\* without the step-2 test
validateStep_NoCoverageCheck(step, cfg) ==
    IF step = 1
    THEN IF Len(cfg.projectName) < 1
         THEN [k \in {"projectName"} |-> "Project name is required"]
         ELSE IF ~matchesSlugPattern(cfg.projectName)
              THEN [k \in {"projectName"} |-> "Must be lowercase with hyphens only"]
              ELSE NoErrors
    ELSE NoErrors

\* validateStep: newErrors for the step; the step passes when it is empty
validateStep(step, cfg) ==
    LET nameErrors ==
            IF step = 1
            THEN IF Len(cfg.projectName) < 1
                 THEN [k \in {"projectName"} |-> "Project name is required"]
                 ELSE IF ~matchesSlugPattern(cfg.projectName)
                      THEN [k \in {"projectName"} |-> "Must be lowercase with hyphens only"]
                      ELSE NoErrors
            ELSE NoErrors
        coverageErrors ==
            IF step = 2 /\ ~cfg.includeUI /\ ~cfg.includeAPI
            THEN [k \in {"includeUI"} |-> "Select at least one test type"]
            ELSE NoErrors
    IN  nameErrors @@ coverageErrors

\* canProceed (useMemo): enables the Continue button
canProceed(step, cfg) ==
    IF step = 1 THEN Len(cfg.projectName) > 0 /\ matchesSlugPattern(cfg.projectName)
    ELSE IF step = 2 THEN cfg.includeUI \/ cfg.includeAPI
    ELSE TRUE

\* a || b for an optional enumeration value
orElse(a, b) == IF a = undefined THEN b ELSE a

\* completeConfig (useMemo): the configuration handed to the preview and to StepGenerate
completeConfig(cfg) ==
    LET language     == cfg.language
        validOptions == validCombinations[language]
    IN  [projectName      |-> IF Len(cfg.projectName) = 0 THEN <<"m","y","-","p","r","o","j","e","c","t">> ELSE cfg.projectName,
         description      |-> cfg.description,
         author           |-> cfg.author,
         initGit          |-> cfg.initGit,
         includeUI        |-> cfg.includeUI,
         includeAPI       |-> cfg.includeAPI,
         language         |-> language,
         buildTool        |-> orElse(cfg.buildTool, validOptions.buildTools[1]),
         uiFramework      |-> IF cfg.includeUI
                              THEN orElse(cfg.uiFramework, validOptions.uiFrameworks[1])
                              ELSE undefined,
         apiFramework     |-> IF cfg.includeAPI
                              THEN orElse(cfg.apiFramework, validOptions.apiFrameworks[1])
                              ELSE undefined,
         testRunner       |-> orElse(cfg.testRunner, validOptions.testRunners[1]),
         reporting        |-> cfg.reporting,
         includeEnvConfig |-> cfg.includeEnvConfig,
         includeCI        |-> cfg.includeCI,
         includeDocker    |-> cfg.includeDocker]

-----------------------------------------------------------------------------
(* src/components/wizard/steps: the updates each handler hands to onChange *)

NoUpdates == [k \in {} |-> undefined]

\* with an early return when the selected language is clicked again
handleLanguageChange_SkipsSameLanguage(cfg, newLanguage) ==
    IF newLanguage = cfg.language THEN NoUpdates
    ELSE LET newOptions == validCombinations[newLanguage]
             base == [language   |-> newLanguage,
                      buildTool  |-> newOptions.buildTools[1],
                      testRunner |-> newOptions.testRunners[1],
                      reporting  |-> <<newOptions.reporting[1]>>]
             ui   == IF cfg.includeUI
                     THEN [k \in {"uiFramework"} |-> newOptions.uiFrameworks[1]]
                     ELSE NoUpdates
             api  == IF cfg.includeAPI
                     THEN [k \in {"apiFramework"} |-> newOptions.apiFrameworks[1]]
                     ELSE NoUpdates
         IN  base @@ ui @@ api

\* without the reset of buildTool
handleLanguageChange_KeepsBuildTool(cfg, newLanguage) ==
    LET newOptions == validCombinations[newLanguage]
        base == [language   |-> newLanguage,
                 testRunner |-> newOptions.testRunners[1],
                 reporting  |-> <<newOptions.reporting[1]>>]
        ui   == IF cfg.includeUI
                THEN [k \in {"uiFramework"} |-> newOptions.uiFrameworks[1]]
                ELSE NoUpdates
        api  == IF cfg.includeAPI
                THEN [k \in {"apiFramework"} |-> newOptions.apiFrameworks[1]]
                ELSE NoUpdates
    IN  base @@ ui @@ api

\* StepLanguage.handleLanguageChange(newLanguage): the updates handed to onChange
handleLanguageChange(cfg, newLanguage) ==
    LET newOptions == validCombinations[newLanguage]
        base == [language   |-> newLanguage,
                 buildTool  |-> newOptions.buildTools[1],
                 testRunner |-> newOptions.testRunners[1],
                 reporting  |-> <<newOptions.reporting[1]>>]
        ui   == IF cfg.includeUI
                THEN [k \in {"uiFramework"} |-> newOptions.uiFrameworks[1]]
                ELSE NoUpdates
        api  == IF cfg.includeAPI
                THEN [k \in {"apiFramework"} |-> newOptions.apiFrameworks[1]]
                ELSE NoUpdates
    IN  base @@ ui @@ api

\* current.filter(r => r !== option)
RECURSIVE without(_, _)
without(seq, x) ==
    IF Len(seq) = 0 THEN <<>>
    ELSE IF seq[1] = x THEN without(Tail(seq), x)
         ELSE <<seq[1]>> \o without(Tail(seq), x)

\* without the guard on updated.length
toggleReporting_AllowsEmpty(current, option) ==
    IF includes(current, option)
    THEN without(current, option)
    ELSE Append(current, option)

\* StepOptions.toggleReporting(option): the list after the click
toggleReporting(current, option) ==
    LET updated == IF includes(current, option)
                   THEN without(current, option)
                   ELSE Append(current, option)
    IN  IF Len(updated) > 0 THEN updated ELSE current

-----------------------------------------------------------------------------
(* The wizard: one action per handler; a handler is reachable only while   *)
(* the step that renders its control is the current step.                  *)

\* values typed into the project-name input (e.target.value)
\* a value of 51 characters that starts with U+212A KELVIN SIGN
LongName == <<"U+212A">> \o [i \in 1..MaxProjectNameLength |-> "a"]

TypedValues ==
    { <<>>,
      <<"M","y"," ","P","r","o","j","e","c","t","!","!">>,
      LongName }

\* values typed into the description textarea and the author input
TypedDescriptions == {"", "Desc"}
TypedAuthors == {"", "Me"}

WizardInit ==
    /\ currentStep = 1
    /\ config = defaultConfig
    /\ errors = NoErrors

ExportIdle ==
    /\ isGenerating = FALSE
    /\ isComplete = FALSE
    /\ zipCall = "none"
    /\ orphanCalls = 0
    /\ handed = {}
    /\ saveCalls = 0
    /\ compressed = FALSE

NotComputed == <<"not computed">>

\* FolderTree has not been rendered: a forest that buildTree cannot return,
\* since split('/').filter(Boolean) leaves no empty name
NoTree == << [name |-> <<>>, isFolder |-> FALSE, children |-> <<>>] >>

\* FolderTree is not rendered: no localeCompare call reads the host locale
NoLocale == "not read"

GenIdle ==
    /\ folderTree = NotComputed
    /\ files = NotComputed
    /\ tree = NoTree
    /\ locale = NoLocale

Init == WizardInit /\ ExportIdle /\ GenIdle

\* StepBasics: <Input onChange={(e) => handleNameChange(e.target.value)}>
HandleNameChange ==
    /\ currentStep = 1
    /\ \E value \in TypedValues : updateConfig([projectName |-> slugify(value)])
    /\ UNCHANGED <<currentStep, exportVars, genVars>>

\* StepBasics: <Textarea onChange={(e) => onChange({ description: e.target.value })}>
TypeDescription ==
    /\ currentStep = 1
    /\ \E value \in TypedDescriptions : updateConfig([description |-> value])
    /\ UNCHANGED <<currentStep, exportVars, genVars>>

\* StepBasics: <Input onChange={(e) => onChange({ author: e.target.value })}>
TypeAuthor ==
    /\ currentStep = 1
    /\ \E value \in TypedAuthors : updateConfig([author |-> value])
    /\ UNCHANGED <<currentStep, exportVars, genVars>>

\* StepBasics: <Switch onCheckedChange={(checked) => onChange({ initGit: checked })}>
ToggleInitGit ==
    /\ currentStep = 1
    /\ updateConfig([initGit |-> ~config.initGit])
    /\ UNCHANGED <<currentStep, exportVars, genVars>>

\* StepCoverage: onChange({ includeUI: !config.includeUI })
ToggleUI ==
    /\ currentStep = 2
    /\ updateConfig([includeUI |-> ~config.includeUI])
    /\ UNCHANGED <<currentStep, exportVars, genVars>>

\* StepCoverage: onChange({ includeAPI: !config.includeAPI })
ToggleAPI ==
    /\ currentStep = 2
    /\ updateConfig([includeAPI |-> ~config.includeAPI])
    /\ UNCHANGED <<currentStep, exportVars, genVars>>

\* StepLanguage: onClick={() => handleLanguageChange(lang)}
HandleLanguageChange ==
    /\ currentStep = 3
    /\ \E lang \in Languages : updateConfig(handleLanguageChange(config, lang))
    /\ UNCHANGED <<currentStep, exportVars, genVars>>

\* StepLanguage: onChange({ buildTool: tool }), tool among validOptions.buildTools
SelectBuildTool ==
    /\ currentStep = 3
    /\ \E tool \in Range(validCombinations[config.language].buildTools) :
          updateConfig([buildTool |-> tool])
    /\ UNCHANGED <<currentStep, exportVars, genVars>>

\* StepLanguage: onChange({ uiFramework: framework }), rendered when config.includeUI
SelectUIFramework ==
    /\ currentStep = 3
    /\ config.includeUI
    /\ \E framework \in Range(validCombinations[config.language].uiFrameworks) :
          updateConfig([uiFramework |-> framework])
    /\ UNCHANGED <<currentStep, exportVars, genVars>>

\* StepLanguage: onChange({ apiFramework: framework }), rendered when config.includeAPI
SelectAPIFramework ==
    /\ currentStep = 3
    /\ config.includeAPI
    /\ \E framework \in Range(validCombinations[config.language].apiFrameworks) :
          updateConfig([apiFramework |-> framework])
    /\ UNCHANGED <<currentStep, exportVars, genVars>>

\* StepOptions: onChange({ testRunner: runner })
SelectTestRunner ==
    /\ currentStep = 4
    /\ \E runner \in Range(validCombinations[config.language].testRunners) :
          updateConfig([testRunner |-> runner])
    /\ UNCHANGED <<currentStep, exportVars, genVars>>

\* StepOptions: onClick={() => toggleReporting(option)}; onChange is called
\* only when the updated list is non-empty
ToggleReporting ==
    /\ currentStep = 4
    /\ \E option \in Range(validCombinations[config.language].reporting) :
          LET updated == toggleReporting(config.reporting, option)
          IN  IF updated # config.reporting
              THEN updateConfig([reporting |-> updated])
              ELSE UNCHANGED <<config, errors>>
    /\ UNCHANGED <<currentStep, exportVars, genVars>>

\* StepOptions: the three switches
ToggleEnvConfig ==
    /\ currentStep = 4
    /\ updateConfig([includeEnvConfig |-> ~config.includeEnvConfig])
    /\ UNCHANGED <<currentStep, exportVars, genVars>>

ToggleCI ==
    /\ currentStep = 4
    /\ updateConfig([includeCI |-> ~config.includeCI])
    /\ UNCHANGED <<currentStep, exportVars, genVars>>

ToggleDocker ==
    /\ currentStep = 4
    /\ updateConfig([includeDocker |-> ~config.includeDocker])
    /\ UNCHANGED <<currentStep, exportVars, genVars>>

\* with a Continue button that is always enabled and advances unchecked
HandleNext_Unchecked ==
    /\ currentStep < 5
    /\ errors' = NoErrors
    /\ currentStep' = currentStep + 1
    /\ UNCHANGED <<config, exportVars, genVars>>

\* ConfigWizard.handleNext, from the Continue button: the navigation bar is
\* rendered while currentStep < 5 and the button is disabled={!canProceed}
HandleNext ==
    /\ currentStep < 5
    /\ canProceed(currentStep, config)
    /\ LET newErrors == validateStep(currentStep, config)
       IN  /\ errors' = newErrors
           /\ currentStep' = IF DOMAIN newErrors = {} /\ currentStep < 5
                             THEN currentStep + 1
                             ELSE currentStep
    /\ UNCHANGED <<config, exportVars, genVars>>

\* ConfigWizard.handleBack: Back is disabled at step 1 and not rendered at step 5
HandleBack ==
    /\ currentStep < 5
    /\ currentStep > 1
    /\ currentStep' = currentStep - 1
    /\ UNCHANGED <<config, errors, exportVars, genVars>>

\* with every step of the stepper clickable
HandleStepClick_AnyStep ==
    /\ \E step \in 1..5 :
          /\ step # currentStep
          /\ currentStep' = step
    /\ IF currentStep = 5
       THEN \* StepGenerate is unmounted: its state is discarded, a pending call goes on
            /\ orphanCalls + (IF zipCall = "pending" THEN 1 ELSE 0) <= MaxOrphanCalls
            /\ orphanCalls' = orphanCalls + (IF zipCall = "pending" THEN 1 ELSE 0)
            /\ isGenerating' = FALSE
            /\ isComplete' = FALSE
            /\ zipCall' = "none"
            /\ handed' = {}
            /\ saveCalls' = 0
            /\ compressed' = FALSE
       ELSE UNCHANGED exportVars
    /\ UNCHANGED <<config, errors, genVars>>

\* ConfigWizard.handleStepClick(step), from WizardStepper (isClickable: currentStep > step.id)
HandleStepClick ==
    /\ \E step \in 1..5 :
          /\ step < currentStep
          /\ currentStep' = step
    /\ IF currentStep = 5
       THEN \* StepGenerate is unmounted: its state is discarded, a pending call goes on
            /\ orphanCalls + (IF zipCall = "pending" THEN 1 ELSE 0) <= MaxOrphanCalls
            /\ orphanCalls' = orphanCalls + (IF zipCall = "pending" THEN 1 ELSE 0)
            /\ isGenerating' = FALSE
            /\ isComplete' = FALSE
            /\ zipCall' = "none"
            /\ handed' = {}
            /\ saveCalls' = 0
            /\ compressed' = FALSE
       ELSE UNCHANGED exportVars
    /\ UNCHANGED <<config, errors, genVars>>

Next ==
    \/ HandleNameChange
    \/ TypeDescription
    \/ TypeAuthor
    \/ ToggleInitGit
    \/ ToggleUI
    \/ ToggleAPI
    \/ HandleLanguageChange
    \/ SelectBuildTool
    \/ SelectUIFramework
    \/ SelectAPIFramework
    \/ SelectTestRunner
    \/ ToggleReporting
    \/ ToggleEnvConfig
    \/ ToggleCI
    \/ ToggleDocker
    \/ HandleNext
    \/ HandleBack
    \/ HandleStepClick

Spec == Init /\ [][Next]_vars

-----------------------------------------------------------------------------
(* src/lib/folderTree.ts: generateFolderTree *)

\* comparison of two strings by UTF-16 code units (the default order of
\* Array.prototype.sort): a < b
RECURSIVE lessThan(_, _)
lessThan(a, b) ==
    IF Len(b) = 0 THEN FALSE
    ELSE IF Len(a) = 0 THEN TRUE
    ELSE IF CodeUnit[a[1]] < CodeUnit[b[1]] THEN TRUE
    ELSE IF CodeUnit[a[1]] > CodeUnit[b[1]] THEN FALSE
    ELSE lessThan(Tail(a), Tail(b))

\* position of x in the sorted sequence: after every element that is not greater
RECURSIVE insertSorted(_, _)
insertSorted(sorted, x) ==
    IF Len(sorted) = 0 THEN <<x>>
    ELSE IF lessThan(x, sorted[1]) THEN <<x>> \o sorted
    ELSE <<sorted[1]>> \o insertSorted(Tail(sorted), x)

\* paths.sort()
RECURSIVE sort(_)
sort(paths) ==
    IF Len(paths) = 0 THEN <<>>
    ELSE insertSorted(sort(Tail(paths)), paths[1])

\* `${projectName}<suffix>` for each suffix
under(projectName, suffixes) ==
    [i \in 1..Len(suffixes) |-> projectName \o suffixes[i]]

when(cond, suffixes) == IF cond THEN suffixes ELSE <<>>

\* the paths in the order generateFolderTree pushes them
pushedPaths(cfg) ==
    LET includeUI  == cfg.includeUI
        includeAPI == cfg.includeAPI
        root ==
            <<<<"/">>, <<"/","R","E","A","D","M","E",".","m","d">>, <<"/",".","e","n","v",".","e","x","a","m","p","l","e">>>>
            \o when(cfg.initGit, <<<<"/",".","g","i","t","i","g","n","o","r","e">>>>)
        typescript ==
            <<<<"/","p","a","c","k","a","g","e",".","j","s","o","n">>, <<"/","t","s","c","o","n","f","i","g",".","j","s","o","n">>, <<"/","p","l","a","y","w","r","i","g","h","t",".","c","o","n","f","i","g",".","t","s">>,
              <<"/","s","r","c","/">>, <<"/","s","r","c","/","u","t","i","l","s","/">>, <<"/","s","r","c","/","u","t","i","l","s","/","c","o","n","f","i","g",".","t","s">>, <<"/","s","r","c","/","u","t","i","l","s","/","h","e","l","p","e","r","s",".","t","s">>>>
            \o when(includeUI,
                <<<<"/","s","r","c","/","p","a","g","e","s","/">>, <<"/","s","r","c","/","p","a","g","e","s","/","B","a","s","e","P","a","g","e",".","t","s">>, <<"/","s","r","c","/","p","a","g","e","s","/","L","o","g","i","n","P","a","g","e",".","t","s">>,
                  <<"/","s","r","c","/","f","i","x","t","u","r","e","s","/">>, <<"/","s","r","c","/","f","i","x","t","u","r","e","s","/","b","a","s","e",".","f","i","x","t","u","r","e",".","t","s">>>>)
            \o <<<<"/","t","e","s","t","s","/">>>>
            \o when(includeUI,
                <<<<"/","t","e","s","t","s","/","u","i","/">>, <<"/","t","e","s","t","s","/","u","i","/","l","o","g","i","n",".","s","p","e","c",".","t","s">>, <<"/","t","e","s","t","s","/","u","i","/","h","o","m","e",".","s","p","e","c",".","t","s">>>>)
            \o when(includeAPI,
                <<<<"/","t","e","s","t","s","/","a","p","i","/">>, <<"/","t","e","s","t","s","/","a","p","i","/","u","s","e","r","s",".","s","p","e","c",".","t","s">>, <<"/","t","e","s","t","s","/","a","p","i","/","h","e","a","l","t","h",".","s","p","e","c",".","t","s">>>>)
            \o <<<<"/","c","o","n","f","i","g","/">>, <<"/","c","o","n","f","i","g","/","d","e","v",".","j","s","o","n">>, <<"/","c","o","n","f","i","g","/","s","t","a","g","e",".","j","s","o","n">>, <<"/","c","o","n","f","i","g","/","p","r","o","d",".","j","s","o","n">>,
                 <<"/","s","c","r","i","p","t","s","/">>, <<"/","s","c","r","i","p","t","s","/","r","u","n","-","t","e","s","t","s",".","s","h">>>>
        java ==
            (IF cfg.buildTool = "maven"
             THEN <<<<"/","p","o","m",".","x","m","l">>>>
             ELSE <<<<"/","b","u","i","l","d",".","g","r","a","d","l","e">>, <<"/","s","e","t","t","i","n","g","s",".","g","r","a","d","l","e">>>>)
            \o <<<<"/","s","r","c","/">>, <<"/","s","r","c","/","t","e","s","t","/">>, <<"/","s","r","c","/","t","e","s","t","/","j","a","v","a","/">>, <<"/","s","r","c","/","t","e","s","t","/","j","a","v","a","/","c","o","m","/">>,
                 <<"/","s","r","c","/","t","e","s","t","/","j","a","v","a","/","c","o","m","/","a","u","t","o","m","a","t","i","o","n","/">>,
                 <<"/","s","r","c","/","t","e","s","t","/","j","a","v","a","/","c","o","m","/","a","u","t","o","m","a","t","i","o","n","/","b","a","s","e","/">>,
                 <<"/","s","r","c","/","t","e","s","t","/","j","a","v","a","/","c","o","m","/","a","u","t","o","m","a","t","i","o","n","/","b","a","s","e","/","B","a","s","e","T","e","s","t",".","j","a","v","a">>,
                 <<"/","s","r","c","/","t","e","s","t","/","j","a","v","a","/","c","o","m","/","a","u","t","o","m","a","t","i","o","n","/","u","t","i","l","s","/">>,
                 <<"/","s","r","c","/","t","e","s","t","/","j","a","v","a","/","c","o","m","/","a","u","t","o","m","a","t","i","o","n","/","u","t","i","l","s","/","C","o","n","f","i","g","R","e","a","d","e","r",".","j","a","v","a">>,
                 <<"/","s","r","c","/","t","e","s","t","/","j","a","v","a","/","c","o","m","/","a","u","t","o","m","a","t","i","o","n","/","u","t","i","l","s","/","T","e","s","t","U","t","i","l","s",".","j","a","v","a">>>>
            \o when(includeUI,
                <<<<"/","s","r","c","/","t","e","s","t","/","j","a","v","a","/","c","o","m","/","a","u","t","o","m","a","t","i","o","n","/","u","t","i","l","s","/","W","e","b","D","r","i","v","e","r","F","a","c","t","o","r","y",".","j","a","v","a">>,
                  <<"/","s","r","c","/","t","e","s","t","/","j","a","v","a","/","c","o","m","/","a","u","t","o","m","a","t","i","o","n","/","p","a","g","e","s","/">>,
                  <<"/","s","r","c","/","t","e","s","t","/","j","a","v","a","/","c","o","m","/","a","u","t","o","m","a","t","i","o","n","/","p","a","g","e","s","/","B","a","s","e","P","a","g","e",".","j","a","v","a">>,
                  <<"/","s","r","c","/","t","e","s","t","/","j","a","v","a","/","c","o","m","/","a","u","t","o","m","a","t","i","o","n","/","p","a","g","e","s","/","L","o","g","i","n","P","a","g","e",".","j","a","v","a">>,
                  <<"/","s","r","c","/","t","e","s","t","/","j","a","v","a","/","c","o","m","/","a","u","t","o","m","a","t","i","o","n","/","p","a","g","e","s","/","H","o","m","e","P","a","g","e",".","j","a","v","a">>,
                  <<"/","s","r","c","/","t","e","s","t","/","j","a","v","a","/","c","o","m","/","a","u","t","o","m","a","t","i","o","n","/","t","e","s","t","s","/">>,
                  <<"/","s","r","c","/","t","e","s","t","/","j","a","v","a","/","c","o","m","/","a","u","t","o","m","a","t","i","o","n","/","t","e","s","t","s","/","L","o","g","i","n","T","e","s","t",".","j","a","v","a">>>>)
            \o when(includeAPI,
                <<<<"/","s","r","c","/","t","e","s","t","/","j","a","v","a","/","c","o","m","/","a","u","t","o","m","a","t","i","o","n","/","a","p","i","/">>,
                  <<"/","s","r","c","/","t","e","s","t","/","j","a","v","a","/","c","o","m","/","a","u","t","o","m","a","t","i","o","n","/","a","p","i","/","B","a","s","e","A","p","i","C","l","i","e","n","t",".","j","a","v","a">>,
                  <<"/","s","r","c","/","t","e","s","t","/","j","a","v","a","/","c","o","m","/","a","u","t","o","m","a","t","i","o","n","/","a","p","i","/","U","s","e","r","s","A","p","i","T","e","s","t",".","j","a","v","a">>,
                  <<"/","s","r","c","/","t","e","s","t","/","j","a","v","a","/","c","o","m","/","a","u","t","o","m","a","t","i","o","n","/","a","p","i","/","P","o","s","t","s","A","p","i","T","e","s","t",".","j","a","v","a">>>>)
            \o <<<<"/","s","r","c","/","t","e","s","t","/","r","e","s","o","u","r","c","e","s","/">>,
                 <<"/","s","r","c","/","t","e","s","t","/","r","e","s","o","u","r","c","e","s","/","c","o","n","f","i","g",".","p","r","o","p","e","r","t","i","e","s">>,
                 <<"/","s","r","c","/","t","e","s","t","/","r","e","s","o","u","r","c","e","s","/","l","o","g","4","j","2",".","x","m","l">>>>
        python ==
            <<<<"/","r","e","q","u","i","r","e","m","e","n","t","s",".","t","x","t">>>>
            \o when(cfg.buildTool = "poetry", <<<<"/","p","y","p","r","o","j","e","c","t",".","t","o","m","l">>>>)
            \o <<<<"/","p","y","t","e","s","t",".","i","n","i">>, <<"/","c","o","n","f","t","e","s","t",".","p","y">>,
                 <<"/","s","r","c","/">>, <<"/","s","r","c","/","_","_","i","n","i","t","_","_",".","p","y">>, <<"/","s","r","c","/","u","t","i","l","s","/">>, <<"/","s","r","c","/","u","t","i","l","s","/","_","_","i","n","i","t","_","_",".","p","y">>,
                 <<"/","s","r","c","/","u","t","i","l","s","/","c","o","n","f","i","g",".","p","y">>, <<"/","s","r","c","/","u","t","i","l","s","/","a","p","i","_","c","l","i","e","n","t",".","p","y">>>>
            \o when(includeUI,
                <<<<"/","s","r","c","/","p","a","g","e","s","/">>, <<"/","s","r","c","/","p","a","g","e","s","/","_","_","i","n","i","t","_","_",".","p","y">>, <<"/","s","r","c","/","p","a","g","e","s","/","b","a","s","e","_","p","a","g","e",".","p","y">>,
                  <<"/","s","r","c","/","p","a","g","e","s","/","l","o","g","i","n","_","p","a","g","e",".","p","y">>>>)
            \o <<<<"/","t","e","s","t","s","/">>, <<"/","t","e","s","t","s","/","_","_","i","n","i","t","_","_",".","p","y">>>>
            \o when(includeUI,
                <<<<"/","t","e","s","t","s","/","u","i","/">>, <<"/","t","e","s","t","s","/","u","i","/","_","_","i","n","i","t","_","_",".","p","y">>, <<"/","t","e","s","t","s","/","u","i","/","t","e","s","t","_","l","o","g","i","n",".","p","y">>>>)
            \o when(includeAPI,
                <<<<"/","t","e","s","t","s","/","a","p","i","/">>, <<"/","t","e","s","t","s","/","a","p","i","/","_","_","i","n","i","t","_","_",".","p","y">>, <<"/","t","e","s","t","s","/","a","p","i","/","t","e","s","t","_","u","s","e","r","s",".","p","y">>,
                  <<"/","t","e","s","t","s","/","a","p","i","/","t","e","s","t","_","p","o","s","t","s",".","p","y">>>>)
        ci ==
            <<<<"/",".","g","i","t","h","u","b","/">>, <<"/",".","g","i","t","h","u","b","/","w","o","r","k","f","l","o","w","s","/">>, <<"/",".","g","i","t","h","u","b","/","w","o","r","k","f","l","o","w","s","/","t","e","s","t","s",".","y","m","l">>>>
        docker ==
            <<<<"/","D","o","c","k","e","r","f","i","l","e">>, <<"/","d","o","c","k","e","r","-","c","o","m","p","o","s","e",".","y","m","l">>>>
    IN  under(cfg.projectName,
            root
            \o when(cfg.language = "typescript", typescript)
            \o when(cfg.language = "java", java)
            \o when(cfg.language = "python", python)
            \o when(cfg.includeCI, ci)
            \o when(cfg.includeDocker, docker))

\* path.startsWith(prefix)
startsWith(path, prefix) ==
    Len(path) >= Len(prefix) /\ SubSeq(path, 1, Len(prefix)) = prefix

generateFolderTree_Unsorted(cfg) == pushedPaths(cfg)

\* with the tests/api/ paths pushed only inside the includeUI branch
generateFolderTree_ApiTestsNeedUI(cfg) ==
    sort(SelectSeq(pushedPaths(cfg),
                   LAMBDA p : cfg.includeUI
                              \/ ~startsWith(p, cfg.projectName \o <<"/","t","e","s","t","s","/","a","p","i","/">>)))

\* without the test of initGit
generateFolderTree_AlwaysGitignore(cfg) ==
    sort(pushedPaths([cfg EXCEPT !.initGit = TRUE]))

\* with the config/ paths pushed only when includeEnvConfig
generateFolderTree_EnvConfigGated(cfg) ==
    sort(SelectSeq(pushedPaths(cfg),
                   LAMBDA p : cfg.includeEnvConfig
                              \/ ~startsWith(p, cfg.projectName \o <<"/","c","o","n","f","i","g","/">>)))

\* with pom.xml pushed outside the Java branch
generateFolderTree_PomForAll(cfg) ==
    sort(pushedPaths(cfg)
         \o when(cfg.language # "java", <<cfg.projectName \o <<"/","p","o","m",".","x","m","l">>>>))

\* without the push of `${projectName}/src/`
generateFolderTree_NoSrcMarker(cfg) ==
    sort(SelectSeq(pushedPaths(cfg), LAMBDA p : p # cfg.projectName \o <<"/","s","r","c","/">>))

generateFolderTree(cfg) == sort(pushedPaths(cfg))

-----------------------------------------------------------------------------
(* src/lib/folderTree.ts (second half): generateFiles *)

\* a step of jobs.test.steps in the workflow text: its name, uses, run and if
\* keys (undefined when the step has no such key); a run command is the
\* sequence of its words, empty when the step has no run key
step(name, uses, run, cond) ==
    [name |-> name, uses |-> uses, run |-> run, if |-> cond]

\* with the upload step lacking its if key
generateGitHubWorkflow_UploadOnSuccess(cfg) ==
    LET buildTool == cfg.buildTool
        checkout  == step(undefined, "actions/checkout@v4", <<>>, undefined)
        upload    == step("Upload test results", "actions/upload-artifact@v4",
                          <<>>, undefined)
    IN  IF cfg.language = "typescript"
        THEN << checkout,
                step("Setup Node.js", "actions/setup-node@v4", <<>>, undefined),
                step("Install dependencies", undefined, <<buildTool, "install">>, undefined) >>
             \o when(cfg.includeUI,
                  << step("Install Playwright browsers", undefined,
                          <<"npx", "playwright", "install", "--with-deps", "chromium">>,
                          undefined) >>)
             \o << step("Run tests", undefined, <<buildTool, "test">>, undefined),
                   upload >>
        ELSE IF cfg.language = "java"
        THEN << checkout,
                step("Setup Java", "actions/setup-java@v4", <<>>, undefined),
                step("Run tests", undefined,
                     IF buildTool = "maven" THEN <<"mvn", "test">>
                                            ELSE <<"./gradlew", "test">>,
                     undefined),
                upload >>
        ELSE << checkout,
                step("Setup Python", "actions/setup-python@v5", <<>>, undefined),
                step("Install dependencies", undefined,
                     <<"pip", "install", "-r", "requirements.txt">>, undefined),
                step("Run tests", undefined,
                     <<"pytest", "--junitxml=test-results/junit.xml">>, undefined),
                upload >>

\* generateGitHubWorkflow(config): the steps of the workflow, in order
generateGitHubWorkflow(cfg) ==
    LET buildTool == cfg.buildTool
        checkout  == step(undefined, "actions/checkout@v4", <<>>, undefined)
        upload    == step("Upload test results", "actions/upload-artifact@v4",
                          <<>>, "always()")
    IN  IF cfg.language = "typescript"
        THEN << checkout,
                step("Setup Node.js", "actions/setup-node@v4", <<>>, undefined),
                step("Install dependencies", undefined, <<buildTool, "install">>, undefined) >>
             \o when(cfg.includeUI,
                  << step("Install Playwright browsers", undefined,
                          <<"npx", "playwright", "install", "--with-deps", "chromium">>,
                          undefined) >>)
             \o << step("Run tests", undefined, <<buildTool, "test">>, undefined),
                   upload >>
        ELSE IF cfg.language = "java"
        THEN << checkout,
                step("Setup Java", "actions/setup-java@v4", <<>>, undefined),
                step("Run tests", undefined,
                     IF buildTool = "maven" THEN <<"mvn", "test">>
                                            ELSE <<"./gradlew", "test">>,
                     undefined),
                upload >>
        ELSE << checkout,
                step("Setup Python", "actions/setup-python@v5", <<>>, undefined),
                step("Install dependencies", undefined,
                     <<"pip", "install", "-r", "requirements.txt">>, undefined),
                step("Run tests", undefined,
                     <<"pytest", "--junitxml=test-results/junit.xml">>, undefined),
                upload >>

\* a || b for a string that may be empty
orDefault(a, b) == IF a = "" THEN b ELSE a

\* The templates that read the configuration: the content is the record of
\* the template function's name and of every value that its text is built
\* from.  A template without parameters is named by its function only.

\* with axios declared whenever includeAPI is set
generateTypeScriptPackageJson_AxiosForAnyApi(cfg) ==
    [template        |-> "generateTypeScriptPackageJson",
     name            |-> cfg.projectName,
     description     |-> orDefault(cfg.description, "Automation test framework"),
     author          |-> cfg.author,
     scripts         |-> {"test", "test:ui", "test:headed", "test:debug", "report"}
                         \cup (IF cfg.includeAPI THEN {"test:api"} ELSE {}),
     devDependencies |-> {"@playwright/test", "dotenv"}
                         \cup (IF cfg.includeAPI THEN {"axios"} ELSE {})]

\* generateTypeScriptPackageJson(config): the keys of scripts and of devDependencies
generateTypeScriptPackageJson(cfg) ==
    [template        |-> "generateTypeScriptPackageJson",
     name            |-> cfg.projectName,
     description     |-> orDefault(cfg.description, "Automation test framework"),
     author          |-> cfg.author,
     scripts         |-> {"test", "test:ui", "test:headed", "test:debug", "report"}
                         \cup (IF cfg.includeAPI THEN {"test:api"} ELSE {}),
     devDependencies |-> {"@playwright/test", "dotenv"}
                         \cup (IF cfg.apiFramework = "axios" THEN {"axios"} ELSE {})]

\* generateGitignore(language)
generateGitignore(language) ==
    [template |-> "generateGitignore",
     sections |-> {"common"}
                  \cup (IF language = "java" THEN {"java"} ELSE {})
                  \cup (IF language = "python" THEN {"python"} ELSE {})]

\* generateReadme(config): installCmd, testCmd and the values interpolated
generateReadme(cfg) ==
    LET language  == cfg.language
        buildTool == cfg.buildTool
        installCmd ==
            IF language = "typescript"
            THEN IF buildTool = "pnpm" THEN "pnpm install" ELSE "npm install"
            ELSE IF language = "java"
            THEN IF buildTool = "maven" THEN "mvn clean install -DskipTests"
                                        ELSE "./gradlew build -x test"
            ELSE IF language = "python"
            THEN IF buildTool = "poetry" THEN "poetry install"
                                         ELSE "pip install -r requirements.txt"
            ELSE ""
        testCmd ==
            IF language = "typescript"
            THEN IF buildTool = "pnpm" THEN "pnpm test" ELSE "npm test"
            ELSE IF language = "java"
            THEN IF buildTool = "maven" THEN "mvn test" ELSE "./gradlew test"
            ELSE IF language = "python" THEN "pytest"
            ELSE ""
    IN  [template      |-> "generateReadme",
         projectName   |-> cfg.projectName,
         description   |-> orDefault(cfg.description,
                                     "Automation test framework generated by SuiteMate"),
         language      |-> language,
         includeUI     |-> cfg.includeUI,
         includeAPI    |-> cfg.includeAPI,
         includeDocker |-> cfg.includeDocker,
         installCmd    |-> installCmd,
         testCmd       |-> testCmd]

\* generateDockerfile(config)
generateDockerfile(cfg) ==
    [template |-> "generateDockerfile", language |-> cfg.language]

\* with the test library chosen by testRunner
generateJavaPom_ByTestRunner(cfg) ==
    LET includeAllure == includes(cfg.reporting, "allure")
    IN  [template      |-> "generateJavaPom",
         artifactId    |-> cfg.projectName,
         description   |-> orDefault(cfg.description, "Automation test framework"),
         includeAllure |-> includeAllure,
         dependencies  |->
             (IF cfg.testRunner = "testng" THEN {"testng"}
              ELSE {"junit-jupiter", "junit-jupiter-params"})
             \cup {"log4j-core", "log4j-api", "assertj-core"}
             \cup (IF cfg.includeUI THEN {"selenium-java", "webdrivermanager"} ELSE {})
             \cup (IF cfg.includeAPI
                   THEN {"rest-assured", "json-path", "json-schema-validator"} ELSE {})
             \cup (IF includeAllure THEN {"allure-junit5"} ELSE {})]

\* generateJavaPom(config): the artifactIds of <dependencies>
generateJavaPom(cfg) ==
    LET includeAllure == includes(cfg.reporting, "allure")
    IN  [template      |-> "generateJavaPom",
         artifactId    |-> cfg.projectName,
         description   |-> orDefault(cfg.description, "Automation test framework"),
         includeAllure |-> includeAllure,
         dependencies  |->
             {"junit-jupiter", "junit-jupiter-params", "log4j-core", "log4j-api",
              "assertj-core"}
             \cup (IF cfg.includeUI THEN {"selenium-java", "webdrivermanager"} ELSE {})
             \cup (IF cfg.includeAPI
                   THEN {"rest-assured", "json-path", "json-schema-validator"} ELSE {})
             \cup (IF includeAllure THEN {"allure-junit5"} ELSE {})]

\* generateJavaBaseTest(config)
generateJavaBaseTest(cfg) ==
    [template |-> "generateJavaBaseTest", includeUI |-> cfg.includeUI]

\* the packages that both Python manifests declare, from the UI branch
pythonUiPackages(cfg) ==
    LET isSelenium == cfg.uiFramework = "selenium"
    IN  IF cfg.includeUI
        THEN IF isSelenium THEN {"selenium", "webdriver-manager"} ELSE {"playwright"}
        ELSE {}

\* generatePythonPyprojectToml(config): the keys of [tool.poetry.dependencies]
generatePythonPyprojectToml(cfg) ==
    [template     |-> "generatePythonPyprojectToml",
     name         |-> cfg.projectName,
     description  |-> orDefault(cfg.description, "Automation test framework"),
     authors      |-> orDefault(cfg.author, "Test Automation Team"),
     dependencies |-> {"python", "pytest", "pytest-html", "pytest-xdist",
                       "python-dotenv", "requests"}
                      \cup pythonUiPackages(cfg)]

\* generatePythonRequirements(config): the packages required
generatePythonRequirements(cfg) ==
    [template     |-> "generatePythonRequirements",
     dependencies |-> {"pytest", "pytest-html", "pytest-xdist", "python-dotenv",
                       "requests", "Faker", "black", "flake8", "mypy"}
                      \cup pythonUiPackages(cfg)]

\* generatePythonConftest(config)
generatePythonConftest(cfg) ==
    LET isSelenium == cfg.uiFramework = "selenium"
    IN  [template    |-> "generatePythonConftest",
         variant     |-> IF isSelenium /\ cfg.includeUI THEN "selenium" ELSE "playwright",
         projectName |-> cfg.projectName,
         includeUI   |-> cfg.includeUI]

\* generatePythonBasePage, generatePythonLoginPage, generatePythonLoginTest:
\* one of two texts, by isSelenium
pythonUiTemplate(template, cfg) ==
    [template |-> template, isSelenium |-> cfg.uiFramework = "selenium"]

\* with the path written from the root: `/${projectName}/...`
entry_LeadingSlash(projectName, suffix, template) ==
    [path |-> <<"/">> \o projectName \o suffix, content |-> template]

\* a FileEntry: the path and the content
entry(projectName, suffix, template) ==
    [path |-> projectName \o suffix, content |-> template]

entries(projectName, pairs) ==
    [i \in 1..Len(pairs) |-> entry(projectName, pairs[i][1], pairs[i][2])]

generateFiles(cfg) ==
    LET includeUI  == cfg.includeUI
        includeAPI == cfg.includeAPI
        common ==
            << <<<<"/","R","E","A","D","M","E",".","m","d">>, generateReadme(cfg)>>,
               <<<<"/",".","e","n","v",".","e","x","a","m","p","l","e">>, "generateEnvExample">> >>
            \o when(cfg.initGit, << <<<<"/",".","g","i","t","i","g","n","o","r","e">>, generateGitignore(cfg.language)>> >>)
        typescript ==
            << <<<<"/","p","a","c","k","a","g","e",".","j","s","o","n">>, generateTypeScriptPackageJson(cfg)>>,
               <<<<"/","t","s","c","o","n","f","i","g",".","j","s","o","n">>, "generateTsConfig">>,
               <<<<"/","p","l","a","y","w","r","i","g","h","t",".","c","o","n","f","i","g",".","t","s">>, "generatePlaywrightConfig">>,
               <<<<"/","s","r","c","/","u","t","i","l","s","/","c","o","n","f","i","g",".","t","s">>, "generateTsUtils">>,
               <<<<"/","s","r","c","/","u","t","i","l","s","/","h","e","l","p","e","r","s",".","t","s">>, "generateTsHelpers">> >>
            \o when(includeUI,
                << <<<<"/","s","r","c","/","p","a","g","e","s","/","B","a","s","e","P","a","g","e",".","t","s">>, "generateTsBasePage">>,
                   <<<<"/","s","r","c","/","p","a","g","e","s","/","L","o","g","i","n","P","a","g","e",".","t","s">>, "generateTsLoginPage">>,
                   <<<<"/","s","r","c","/","f","i","x","t","u","r","e","s","/","b","a","s","e",".","f","i","x","t","u","r","e",".","t","s">>, "generateTsFixture">>,
                   <<<<"/","t","e","s","t","s","/","u","i","/","l","o","g","i","n",".","s","p","e","c",".","t","s">>, "generateTsLoginSpec">>,
                   <<<<"/","t","e","s","t","s","/","u","i","/","h","o","m","e",".","s","p","e","c",".","t","s">>, "generateTsHomeSpec">> >>)
            \o when(includeAPI,
                << <<<<"/","t","e","s","t","s","/","a","p","i","/","u","s","e","r","s",".","s","p","e","c",".","t","s">>, "generateTsApiSpec">>,
                   <<<<"/","t","e","s","t","s","/","a","p","i","/","h","e","a","l","t","h",".","s","p","e","c",".","t","s">>, "generateTsHealthSpec">> >>)
            \o << <<<<"/","c","o","n","f","i","g","/","d","e","v",".","j","s","o","n">>, "generateConfigJson('dev')">>,
                  <<<<"/","c","o","n","f","i","g","/","s","t","a","g","e",".","j","s","o","n">>, "generateConfigJson('stage')">>,
                  <<<<"/","c","o","n","f","i","g","/","p","r","o","d",".","j","s","o","n">>, "generateConfigJson('prod')">>,
                  <<<<"/","s","c","r","i","p","t","s","/","r","u","n","-","t","e","s","t","s",".","s","h">>, "generateRunScript">> >>
        java ==
            << <<<<"/","p","o","m",".","x","m","l">>, generateJavaPom(cfg)>>,
               <<<<"/","s","r","c","/","t","e","s","t","/","j","a","v","a","/","c","o","m","/","a","u","t","o","m","a","t","i","o","n","/","b","a","s","e","/","B","a","s","e","T","e","s","t",".","j","a","v","a">>, generateJavaBaseTest(cfg)>>,
               <<<<"/","s","r","c","/","t","e","s","t","/","j","a","v","a","/","c","o","m","/","a","u","t","o","m","a","t","i","o","n","/","u","t","i","l","s","/","C","o","n","f","i","g","R","e","a","d","e","r",".","j","a","v","a">>, "generateJavaConfigReader">>,
               <<<<"/","s","r","c","/","t","e","s","t","/","j","a","v","a","/","c","o","m","/","a","u","t","o","m","a","t","i","o","n","/","u","t","i","l","s","/","T","e","s","t","U","t","i","l","s",".","j","a","v","a">>, "generateJavaTestUtils">> >>
            \o when(includeUI,
                << <<<<"/","s","r","c","/","t","e","s","t","/","j","a","v","a","/","c","o","m","/","a","u","t","o","m","a","t","i","o","n","/","u","t","i","l","s","/","W","e","b","D","r","i","v","e","r","F","a","c","t","o","r","y",".","j","a","v","a">>, "generateJavaWebDriverFactory">>,
                   <<<<"/","s","r","c","/","t","e","s","t","/","j","a","v","a","/","c","o","m","/","a","u","t","o","m","a","t","i","o","n","/","p","a","g","e","s","/","B","a","s","e","P","a","g","e",".","j","a","v","a">>, "generateJavaBasePage">>,
                   <<<<"/","s","r","c","/","t","e","s","t","/","j","a","v","a","/","c","o","m","/","a","u","t","o","m","a","t","i","o","n","/","p","a","g","e","s","/","L","o","g","i","n","P","a","g","e",".","j","a","v","a">>, "generateJavaLoginPage">>,
                   <<<<"/","s","r","c","/","t","e","s","t","/","j","a","v","a","/","c","o","m","/","a","u","t","o","m","a","t","i","o","n","/","p","a","g","e","s","/","H","o","m","e","P","a","g","e",".","j","a","v","a">>, "generateJavaHomePage">>,
                   <<<<"/","s","r","c","/","t","e","s","t","/","j","a","v","a","/","c","o","m","/","a","u","t","o","m","a","t","i","o","n","/","t","e","s","t","s","/","L","o","g","i","n","T","e","s","t",".","j","a","v","a">>, "generateJavaLoginTest">> >>)
            \o when(includeAPI,
                << <<<<"/","s","r","c","/","t","e","s","t","/","j","a","v","a","/","c","o","m","/","a","u","t","o","m","a","t","i","o","n","/","a","p","i","/","B","a","s","e","A","p","i","C","l","i","e","n","t",".","j","a","v","a">>, "generateJavaBaseApiClient">>,
                   <<<<"/","s","r","c","/","t","e","s","t","/","j","a","v","a","/","c","o","m","/","a","u","t","o","m","a","t","i","o","n","/","a","p","i","/","U","s","e","r","s","A","p","i","T","e","s","t",".","j","a","v","a">>, "generateJavaUsersApiTest">>,
                   <<<<"/","s","r","c","/","t","e","s","t","/","j","a","v","a","/","c","o","m","/","a","u","t","o","m","a","t","i","o","n","/","a","p","i","/","P","o","s","t","s","A","p","i","T","e","s","t",".","j","a","v","a">>, "generateJavaPostsApiTest">> >>)
            \o << <<<<"/","s","r","c","/","t","e","s","t","/","r","e","s","o","u","r","c","e","s","/","c","o","n","f","i","g",".","p","r","o","p","e","r","t","i","e","s">>, "generateJavaConfigProperties">>,
                  <<<<"/","s","r","c","/","t","e","s","t","/","r","e","s","o","u","r","c","e","s","/","l","o","g","4","j","2",".","x","m","l">>, "generateJavaLog4j">> >>
        python ==
            << <<<<"/","r","e","q","u","i","r","e","m","e","n","t","s",".","t","x","t">>, generatePythonRequirements(cfg)>> >>
            \o when(cfg.buildTool = "poetry",
                << <<<<"/","p","y","p","r","o","j","e","c","t",".","t","o","m","l">>, generatePythonPyprojectToml(cfg)>> >>)
            \o << <<<<"/","p","y","t","e","s","t",".","i","n","i">>, "generatePythonPytestIni">>,
                  <<<<"/","c","o","n","f","t","e","s","t",".","p","y">>, generatePythonConftest(cfg)>>,
                  <<<<"/","s","r","c","/","_","_","i","n","i","t","_","_",".","p","y">>, "generatePythonInit">>,
                  <<<<"/","s","r","c","/","u","t","i","l","s","/","_","_","i","n","i","t","_","_",".","p","y">>, "generatePythonInit">>,
                  <<<<"/","s","r","c","/","u","t","i","l","s","/","c","o","n","f","i","g",".","p","y">>, "generatePythonConfig">>,
                  <<<<"/","s","r","c","/","u","t","i","l","s","/","a","p","i","_","c","l","i","e","n","t",".","p","y">>, "generatePythonApiClient">> >>
            \o when(includeUI,
                << <<<<"/","s","r","c","/","p","a","g","e","s","/","_","_","i","n","i","t","_","_",".","p","y">>, "generatePythonInit">>,
                   <<<<"/","s","r","c","/","p","a","g","e","s","/","b","a","s","e","_","p","a","g","e",".","p","y">>, pythonUiTemplate("generatePythonBasePage", cfg)>>,
                   <<<<"/","s","r","c","/","p","a","g","e","s","/","l","o","g","i","n","_","p","a","g","e",".","p","y">>, pythonUiTemplate("generatePythonLoginPage", cfg)>> >>)
            \o << <<<<"/","t","e","s","t","s","/","_","_","i","n","i","t","_","_",".","p","y">>, "generatePythonInit">> >>
            \o when(includeUI,
                << <<<<"/","t","e","s","t","s","/","u","i","/","_","_","i","n","i","t","_","_",".","p","y">>, "generatePythonInit">>,
                   <<<<"/","t","e","s","t","s","/","u","i","/","t","e","s","t","_","l","o","g","i","n",".","p","y">>, pythonUiTemplate("generatePythonLoginTest", cfg)>> >>)
            \o when(includeAPI,
                << <<<<"/","t","e","s","t","s","/","a","p","i","/","_","_","i","n","i","t","_","_",".","p","y">>, "generatePythonInit">>,
                   <<<<"/","t","e","s","t","s","/","a","p","i","/","t","e","s","t","_","u","s","e","r","s",".","p","y">>, "generatePythonUsersApiTest">>,
                   <<<<"/","t","e","s","t","s","/","a","p","i","/","t","e","s","t","_","p","o","s","t","s",".","p","y">>, "generatePythonPostsApiTest">> >>)
        ci ==
            << <<<<"/",".","g","i","t","h","u","b","/","w","o","r","k","f","l","o","w","s","/","t","e","s","t","s",".","y","m","l">>, generateGitHubWorkflow(cfg)>> >>
        docker ==
            << <<<<"/","D","o","c","k","e","r","f","i","l","e">>, generateDockerfile(cfg)>>,
               <<<<"/","d","o","c","k","e","r","-","c","o","m","p","o","s","e",".","y","m","l">>, "generateDockerCompose">> >>
    IN  entries(cfg.projectName,
            common
            \o when(cfg.language = "typescript", typescript)
            \o when(cfg.language = "java", java)
            \o when(cfg.language = "python", python)
            \o when(cfg.includeCI, ci)
            \o when(cfg.includeDocker, docker))

-----------------------------------------------------------------------------
(* GenSpec: generateFolderTree and generateFiles applied to a configuration *)

BuildTools == {"npm", "pnpm", "maven", "gradle", "pip", "poetry"}

\* project names of the configurations handed to the generators
GenProjectNames == { <<"d","e","m","o">>, <<"a","-","b","-","7">> }

\* complete configurations (the shape completeConfig produces): every
\* language with every build tool of the BuildTool enumeration, every
\* setting of the flags, every framework of the language, without and with
\* a description
GenConfigsOf(lang, ui, api) ==
    { [projectName      |-> name,
       description      |-> description,
       author           |-> "",
       initGit          |-> git,
       includeUI        |-> ui,
       includeAPI       |-> api,
       language         |-> lang,
       buildTool        |-> tool,
       uiFramework      |-> uiFw,
       apiFramework     |-> apiFw,
       testRunner       |-> validCombinations[lang].testRunners[1],
       reporting        |-> <<validCombinations[lang].reporting[1]>>,
       includeEnvConfig |-> env,
       includeCI        |-> ci,
       includeDocker    |-> docker] :
       name \in GenProjectNames, description \in TypedDescriptions,
       tool \in BuildTools, git \in BOOLEAN,
       env \in BOOLEAN, ci \in BOOLEAN, docker \in BOOLEAN,
       uiFw \in (IF ui THEN Range(validCombinations[lang].uiFrameworks)
                       ELSE {undefined}),
       apiFw \in (IF api THEN Range(validCombinations[lang].apiFrameworks)
                         ELSE {undefined}) }

GenConfigs ==
    UNION { GenConfigsOf(lang, ui, api) :
                lang \in Languages, ui \in BOOLEAN, api \in BOOLEAN }

GenInit ==
    /\ currentStep = 5
    /\ config \in GenConfigs
    /\ errors = NoErrors
    /\ ExportIdle
    /\ GenIdle

\* the preview calls generateFolderTree(config)
PlanPaths ==
    /\ folderTree = NotComputed
    /\ folderTree' = generateFolderTree(config)
    /\ UNCHANGED <<wizardVars, exportVars, files, tree, locale>>

\* generateAndDownloadZip calls generateFiles(config)
GenerateContents ==
    /\ files = NotComputed
    /\ files' = generateFiles(config)
    /\ UNCHANGED <<wizardVars, exportVars, folderTree, tree, locale>>

GenNext == PlanPaths \/ GenerateContents

GenSpec == GenInit /\ [][GenNext]_vars

-----------------------------------------------------------------------------
(* ExportSpec: the step-5 sessions (StepGenerate, generateAndDownloadZip); *)
(* between two sessions the wizard goes back and the CI switch of step 4   *)
(* may be flipped                                                          *)

\* configurations the wizard reaches step 5 with: a typed name, Continue
\* twice, a language click, Continue twice
ExportConfigs ==
    { merge(merge(defaultConfig, [projectName |-> slugify(value)]),
            handleLanguageChange(defaultConfig, lang)) :
        value \in {<<"d","e","m","o">>, <<"M","y"," ","P","r","o","j","e","c","t","!","!">>, <<"a","-","-","B","_","7">>}, lang \in Languages }

ExportInit ==
    /\ currentStep = 5
    /\ config \in ExportConfigs
    /\ errors = NoErrors
    /\ ExportIdle
    /\ GenIdle

\* generateAndDownloadZip(config): the entries it hands to zip.file and the
\* name it hands to saveAs
generateAndDownloadZip(cfg) ==
    [entries |-> generateFiles(cfg), archive |-> cfg.projectName \o <<".","z","i","p">>]

\* StepGenerate.handleGenerate up to the await, and generateAndDownloadZip
\* up to its await of zip.generateAsync: the entries are generated and added
\* to the archive.  The button is disabled while isGenerating; StepGenerate
\* is rendered with config={completeConfig}
HandleGenerate ==
    /\ currentStep = 5
    /\ ~isGenerating
    /\ isGenerating' = TRUE
    /\ zipCall' = "pending"
    /\ handed' = handed \cup {generateAndDownloadZip(completeConfig(config))}
    /\ saveCalls' = 0
    /\ compressed' = FALSE
    /\ UNCHANGED <<wizardVars, isComplete, orphanCalls, genVars>>

\* generateAndDownloadZip resumes after its await: zip.generateAsync has
\* resolved, saveAs is called and returns, the promise of the call is
\* fulfilled
ZipResolves ==
    /\ zipCall = "pending"
    /\ zipCall' = "saved"
    /\ compressed' = TRUE
    /\ saveCalls' = saveCalls + 1
    /\ UNCHANGED <<wizardVars, isGenerating, isComplete, orphanCalls, handed, genVars>>

\* generateAndDownloadZip resumes after its await: zip.generateAsync has
\* resolved, saveAs is called and throws, the promise of the call is rejected
SaveAsThrows ==
    /\ zipCall = "pending"
    /\ zipCall' = "failed"
    /\ compressed' = TRUE
    /\ saveCalls' = saveCalls + 1
    /\ UNCHANGED <<wizardVars, isGenerating, isComplete, orphanCalls, handed, genVars>>

\* with saveAs called on the way out of a failed compression
ZipRejects_SavesAnyway ==
    /\ zipCall = "pending"
    /\ zipCall' = "failed"
    /\ saveCalls' = saveCalls + 1
    /\ UNCHANGED <<wizardVars, isGenerating, isComplete, orphanCalls, handed, compressed,
                   genVars>>

\* zip.generateAsync rejects: generateAndDownloadZip does not reach saveAs,
\* the promise of the call is rejected
ZipRejects ==
    /\ zipCall = "pending"
    /\ zipCall' = "failed"
    /\ UNCHANGED <<wizardVars, isGenerating, isComplete, orphanCalls, handed, saveCalls,
                   compressed, genVars>>

\* handleGenerate resumes after `await generateAndDownloadZip(config)`, in a
\* later promise continuation: setIsComplete(true), then finally
HandleGenerateResumes ==
    /\ zipCall = "saved"
    /\ zipCall' = "fulfilled"
    /\ isComplete' = TRUE
    /\ isGenerating' = FALSE
    /\ UNCHANGED <<wizardVars, orphanCalls, handed, saveCalls, compressed, genVars>>

\* without the finally block
HandleGenerateCatches_NoFinally ==
    /\ zipCall = "failed"
    /\ zipCall' = "rejected"
    /\ UNCHANGED <<wizardVars, isGenerating, isComplete, orphanCalls, handed, saveCalls,
                   compressed, genVars>>

\* handleGenerate resumes after the rejected call, in a later promise
\* continuation: catch logs the error, then finally
HandleGenerateCatches ==
    /\ zipCall = "failed"
    /\ zipCall' = "rejected"
    /\ isGenerating' = FALSE
    /\ UNCHANGED <<wizardVars, isComplete, orphanCalls, handed, saveCalls, compressed,
                   genVars>>

\* a call whose StepGenerate was unmounted settles: its setState calls have no effect
OrphanSettles ==
    /\ orphanCalls > 0
    /\ orphanCalls' = orphanCalls - 1
    /\ UNCHANGED <<wizardVars, isGenerating, isComplete, zipCall, handed, saveCalls,
                   compressed, genVars>>

ExportNext ==
    \/ HandleGenerate
    \/ ZipResolves
    \/ SaveAsThrows
    \/ ZipRejects
    \/ HandleGenerateResumes
    \/ HandleGenerateCatches
    \/ OrphanSettles
    \/ ToggleCI
    \/ HandleNext
    \/ HandleBack
    \/ HandleStepClick

ExportSpec == ExportInit /\ [][ExportNext]_vars

\* StepGenerate, Next Steps (rendered when isComplete): the command of item 3
nextStepsInstallCommand(cfg) ==
    IF cfg.buildTool = "npm" \/ cfg.buildTool = "pnpm"
    THEN cfg.buildTool \o " install"
    ELSE IF cfg.buildTool = "maven"
         THEN "mvn clean install -DskipTests"
         ELSE "pip install -r requirements.txt"

\* every archive call awaited by the mounted StepGenerate settles, and the
\* continuation of handleGenerate that a settled call has queued is run
ExportLiveSpec ==
    /\ ExportSpec
    /\ WF_vars(ZipResolves \/ SaveAsThrows \/ ZipRejects)
    /\ WF_vars(HandleGenerateResumes \/ HandleGenerateCatches)
-----------------------------------------------------------------------------
(* NameSpec: step 1 with every short value typed into the project-name input *)

\* characters typed: a lowercase letter, an uppercase letter, a digit, the
\* hyphen, two characters outside [a-z0-9-] after lowercasing, and two
\* characters outside ASCII: U+212A lowercases to k, U+0130 to two code units
TypedAlphabet == {"a", "B", "7", "-", "_", "!", "U+212A", "U+0130"}

BoundedTypedValues ==
    UNION { [1..n -> TypedAlphabet] : n \in 0..MaxTypedLen } \cup { <<"M","y"," ","P","r","o","j","e","c","t","!","!">> }

\* StepBasics: <Input onChange={(e) => handleNameChange(e.target.value)}>
TypeName ==
    /\ currentStep = 1
    /\ \E value \in BoundedTypedValues : updateConfig([projectName |-> slugify(value)])
    /\ UNCHANGED <<currentStep, exportVars, genVars>>

NameNext ==
    \/ TypeName
    \/ TypeDescription
    \/ TypeAuthor
    \/ ToggleInitGit
    \/ HandleNext
    \/ HandleBack

NameSpec == Init /\ [][NameNext]_vars

-----------------------------------------------------------------------------
(* src/components/wizard/FolderTree.tsx: buildTree *)

\* the host's default locale: a.localeCompare(b) is called without a locale
\* argument, so the collation is that of the locale the host runs under.
\* The names compared are the names of sibling nodes, which are segments of
\* the paths generateFolderTree produces (the project name is the single
\* root and is compared with no other name): ASCII letters, digits, '.', '_'
\* and '-'.  The hosts order such names in one of three ways: the root
\* order (en-US), the order of th, which ignores punctuation, and the order
\* of haw, which puts the vowels before the consonants.  The collation of
\* every other host differs from the root order in letters outside ASCII,
\* in pairs of letters sorted as one letter, in moved consonants or in
\* which case comes first among names that differ in case only, none of
\* which decides between two sibling names of a generated tree
Locales == {"en-US", "th", "haw"}

\* primary collation rank of a character in the root collation: punctuation,
\* then symbols, then digits, then letters; a letter has the same rank in
\* both cases
CollationRank ==
    " " :> 1 @@ "_" :> 2 @@ "-" :> 3 @@ "," :> 4 @@ ";" :> 5 @@ ":" :> 6 @@
    "!" :> 7 @@ "?" :> 8 @@ "." :> 9 @@ "'" :> 10 @@ "(" :> 11 @@ ")" :> 12 @@
    "[" :> 13 @@ "]" :> 14 @@ "{" :> 15 @@ "}" :> 16 @@ "@" :> 17 @@ "*" :> 18 @@
    "/" :> 19 @@ "&" :> 20 @@ "#" :> 21 @@ "%" :> 22 @@ "^" :> 23 @@ "+" :> 24 @@
    "<" :> 25 @@ "=" :> 26 @@ ">" :> 27 @@ "|" :> 28 @@ "~" :> 29 @@ "$" :> 30 @@
    "0" :> 31 @@ "1" :> 32 @@ "2" :> 33 @@ "3" :> 34 @@ "4" :> 35 @@ "5" :> 36 @@
    "6" :> 37 @@ "7" :> 38 @@ "8" :> 39 @@ "9" :> 40 @@ "a" :> 41 @@ "A" :> 41 @@
    "b" :> 42 @@ "B" :> 42 @@ "c" :> 43 @@ "C" :> 43 @@ "d" :> 44 @@ "D" :> 44 @@
    "e" :> 45 @@ "E" :> 45 @@ "f" :> 46 @@ "F" :> 46 @@ "g" :> 47 @@ "G" :> 47 @@
    "h" :> 48 @@ "H" :> 48 @@ "i" :> 49 @@ "I" :> 49 @@ "j" :> 50 @@ "J" :> 50 @@
    "k" :> 51 @@ "K" :> 51 @@ "l" :> 52 @@ "L" :> 52 @@ "m" :> 53 @@ "M" :> 53 @@
    "n" :> 54 @@ "N" :> 54 @@ "o" :> 55 @@ "O" :> 55 @@ "p" :> 56 @@ "P" :> 56 @@
    "q" :> 57 @@ "Q" :> 57 @@ "r" :> 58 @@ "R" :> 58 @@ "s" :> 59 @@ "S" :> 59 @@
    "t" :> 60 @@ "T" :> 60 @@ "u" :> 61 @@ "U" :> 61 @@ "v" :> 62 @@ "V" :> 62 @@
    "w" :> 63 @@ "W" :> 63 @@ "x" :> 64 @@ "X" :> 64 @@ "y" :> 65 @@ "Y" :> 65 @@
    "z" :> 66 @@ "Z" :> 66

\* whitespace and punctuation, which the collation of th ignores
\* (alternate=shifted)
VariableChars ==
    {" ", "_", "-", ",", ";", ":", "!", "?", ".", "'", "(", ")", "[", "]",
     "{", "}", "@", "*", "/", "&", "#", "%"}

\* letters that a locale moves, as <<locale, letter, anchor, place>>: the
\* letter sorts after the anchor letter, at the given place among the
\* letters moved there
MovedLetters ==
    { <<"haw", "e", "a", 1>>, <<"haw", "i", "a", 2>>, <<"haw", "o", "a", 3>>,
      <<"haw", "u", "a", 4>> }

\* the lowercase form of an ASCII letter, any other character itself
foldCase(ch) ==
    IF ch \in Range(UpperCase)
    THEN LowerCase[CHOOSE i \in 1..26 : UpperCase[i] = ch]
    ELSE ch

\* primary weight of a character under the host locale, 0 when ignored; the
\* root ranks are multiplied by 8 to leave room after a letter
primaryWeight(ch) ==
    LET moved == {m \in MovedLetters : m[1] = locale /\ m[2] = foldCase(ch)}
    IN  IF locale = "th" /\ ch \in VariableChars THEN 0
        ELSE IF moved # {}
             THEN LET m == CHOOSE x \in moved : TRUE
                  IN  8 * CollationRank[m[3]] + m[4]
             ELSE 8 * CollationRank[ch]

\* tertiary weight: the lowercase letter before the uppercase one
tertiaryWeight(ch) == IF ch \in Range(UpperCase) THEN 1 ELSE 0

\* the collation elements of s under the host locale, each with its primary
\* and tertiary weight; ignored characters give no element
RECURSIVE collationElements(_)
collationElements(s) ==
    IF Len(s) = 0 THEN <<>>
    ELSE IF primaryWeight(s[1]) = 0 THEN collationElements(Tail(s))
    ELSE << [p |-> primaryWeight(s[1]), t |-> tertiaryWeight(s[1])] >>
         \o collationElements(Tail(s))

\* a < b for two sequences of weights: the first difference decides, a
\* proper prefix comes first
RECURSIVE ranksLess(_, _)
ranksLess(a, b) ==
    IF Len(b) = 0 THEN FALSE
    ELSE IF Len(a) = 0 THEN TRUE
    ELSE IF a[1] < b[1] THEN TRUE
    ELSE IF a[1] > b[1] THEN FALSE
    ELSE ranksLess(Tail(a), Tail(b))

\* a.localeCompare(b): negative, zero or positive.  The primary weights of
\* the whole names are compared first, then the tertiary ones; names equal
\* at both levels compare as 0.
localeCompare(a, b) ==
    LET ea == collationElements(a)
        eb == collationElements(b)
        pa == [i \in 1..Len(ea) |-> ea[i].p]
        pb == [i \in 1..Len(eb) |-> eb[i].p]
        ta == [i \in 1..Len(ea) |-> ea[i].t]
        tb == [i \in 1..Len(eb) |-> eb[i].t]
    IN  IF pa # pb THEN (IF ranksLess(pa, pb) THEN -1 ELSE 1)
        ELSE IF ta # tb THEN (IF ranksLess(ta, tb) THEN -1 ELSE 1)
        ELSE 0

\* path.split('/').filter(Boolean), with seg the segment read so far
RECURSIVE splitFrom(_, _)
splitFrom(path, seg) ==
    LET done == IF Len(seg) > 0 THEN <<seg>> ELSE <<>>
    IN  IF Len(path) = 0 THEN done
        ELSE IF path[1] = "/" THEN done \o splitFrom(Tail(path), <<>>)
        ELSE splitFrom(Tail(path), Append(seg, path[1]))

\* path.endsWith('/')
endsWithSlash(path) == Len(path) > 0 /\ path[Len(path)] = "/"

\* without the test of the segment's place in the path
isFolderAt_MarkerOnly(parts, i, trailingSlash) == trailingSlash

\* const isFolder = i < parts.length - 1 || path.endsWith('/'), with i
\* counted from 1
isFolderAt(parts, i, trailingSlash) == i < Len(parts) \/ trailingSlash

\* the inner loop of buildTree from segment i on: find the node named
\* parts[i] among current or push a new one, then descend into its children.
\* The isFolder flag is set when the node is created and never afterwards.
RECURSIVE insertParts(_, _, _, _)
insertParts(current, parts, i, trailingSlash) ==
    IF i > Len(parts) THEN current
    ELSE LET part  == parts[i]
             found == {n \in 1..Len(current) : current[n].name = part}
         IN  IF found = {}
             THEN Append(current,
                         [name     |-> part,
                          isFolder |-> isFolderAt(parts, i, trailingSlash),
                          children |-> insertParts(<<>>, parts, i + 1, trailingSlash)])
             ELSE LET n == CHOOSE m \in found : \A o \in found : m <= o
                  IN  [current EXCEPT ![n].children =
                          insertParts(@, parts, i + 1, trailingSlash)]

\* the outer loop of buildTree: for (const path of paths)
RECURSIVE insertPaths(_, _)
insertPaths(root, paths) ==
    IF Len(paths) = 0 THEN root
    ELSE insertPaths(insertParts(root, splitFrom(paths[1], <<>>), 1, endsWithSlash(paths[1])),
                     Tail(paths))

\* without the two folder tests
compareNodes_NameOnly(a, b) == localeCompare(a.name, b.name)

\* the comparator of sortNodes
compareNodes(a, b) ==
    IF a.isFolder /\ ~b.isFolder THEN -1
    ELSE IF ~a.isFolder /\ b.isFolder THEN 1
    ELSE localeCompare(a.name, b.name)

\* Array.prototype.sort(compare) is stable: x goes before the first node
\* that compares greater
RECURSIVE insertNode(_, _)
insertNode(sorted, x) ==
    IF Len(sorted) = 0 THEN <<x>>
    ELSE IF compareNodes(x, sorted[1]) < 0 THEN <<x>> \o sorted
    ELSE <<sorted[1]>> \o insertNode(Tail(sorted), x)

RECURSIVE sortBy(_)
sortBy(nodes) ==
    IF Len(nodes) = 0 THEN <<>>
    ELSE insertNode(sortBy(SubSeq(nodes, 1, Len(nodes) - 1)), nodes[Len(nodes)])

\* without the sorting of the children
sortNodes_TopLevelOnly(nodes) == sortBy(nodes)

\* sortNodes: nodes.map(n => ({ ...n, children: sortNodes(n.children) })).sort(...)
RECURSIVE sortNodes(_)
sortNodes(nodes) ==
    sortBy([i \in 1..Len(nodes) |->
               [nodes[i] EXCEPT !.children = sortNodes(@)]])

\* buildTree(paths)
buildTree(paths) == sortNodes(insertPaths(<<>>, paths))

-----------------------------------------------------------------------------
(* TreeSpec: the preview: generateFolderTree, then buildTree under a host *)

\* the configurations of the preview: every language with its build tools
\* and every setting of the flags that generateFolderTree reads
TreeConfigs ==
    { c \in GenConfigs :
        /\ c.description = ""
        /\ c.includeEnvConfig
        /\ c.buildTool \in Range(validCombinations[c.language].buildTools)
        /\ c.includeUI =>
              c.uiFramework = validCombinations[c.language].uiFrameworks[1]
        /\ c.includeAPI =>
              c.apiFramework = validCombinations[c.language].apiFrameworks[1] }

TreeInit ==
    /\ currentStep = 5
    /\ config \in TreeConfigs
    /\ errors = NoErrors
    /\ ExportIdle
    /\ folderTree = NotComputed
    /\ files = NotComputed
    /\ tree = NoTree
    /\ locale \in Locales

\* <FolderTree paths={folderTree}>: useMemo(() => buildTree(paths), [paths])
BuildTree ==
    /\ folderTree # NotComputed
    /\ tree = NoTree
    /\ tree' = buildTree(folderTree)
    /\ UNCHANGED <<wizardVars, exportVars, folderTree, files, locale>>

TreeNext == PlanPaths \/ BuildTree

TreeSpec == TreeInit /\ [][TreeNext]_vars
-----------------------------------------------------------------------------
(* Properties *)

isDirectoryMarker(path) == Len(path) > 0 /\ path[Len(path)] = "/"

\* a configuration that passes the validity rules of the claims: a slug name
\* of bounded length, at least one coverage flag, a build tool of the language
isValidConfig(cfg) ==
    /\ Len(cfg.projectName) >= 1
    /\ Len(cfg.projectName) <= MaxProjectNameLength
    /\ \A i \in 1..Len(cfg.projectName) : cfg.projectName[i] \in SlugChars
    /\ cfg.includeUI \/ cfg.includeAPI
    /\ cfg.buildTool \in Range(validCombinations[cfg.language].buildTools)

\* lexicographic order by code units, stated without recursion: a and b agree
\* before position k, and there a ends or has the smaller code unit
LexLess(a, b) ==
    \E k \in 1..Len(b) :
        /\ k <= Len(a) + 1
        /\ \A j \in 1..(k - 1) : a[j] = b[j]
        /\ \/ k = Len(a) + 1
           \/ CodeUnit[a[k]] < CodeUnit[b[k]]

\* C1 (GenSpec): for every valid configuration the set of paths of
\* generateFiles equals the set of paths of generateFolderTree that do not
\* end in '/'.
C1_PathsAgree ==
    (folderTree # NotComputed /\ files # NotComputed /\ isValidConfig(config))
    => {files[i].path : i \in 1..Len(files)}
         = {p \in Range(folderTree) : ~isDirectoryMarker(p)}

\* C2 (Spec): the configuration handed to generation at step 5 has its
\* uiFramework (when includeUI) and its apiFramework (when includeAPI) among
\* the frameworks of its language.
C2_FrameworksValid ==
    currentStep = 5 =>
        LET cc == completeConfig(config)
            validOptions == validCombinations[cc.language]
        IN  /\ cc.includeUI => includes(validOptions.uiFrameworks, cc.uiFramework)
            /\ cc.includeAPI => includes(validOptions.apiFrameworks, cc.apiFramework)

\* C3 (Spec): in every reachable wizard state buildTool and testRunner belong
\* to the selected language's options, and reporting is a non-empty list
\* without duplicates of the language's reporting options.
C3_DependentFieldsValid ==
    LET validOptions == validCombinations[config.language]
    IN  /\ includes(validOptions.buildTools, config.buildTool)
        /\ includes(validOptions.testRunners, config.testRunner)
        /\ Len(config.reporting) >= 1
        /\ \A i \in 1..Len(config.reporting) :
              includes(validOptions.reporting, config.reporting[i])
        /\ \A i, j \in 1..Len(config.reporting) :
              i # j => config.reporting[i] # config.reporting[j]

\* toggleReporting added an option, removed the first one, and refuses to
\* remove the remaining one
C3_Witness ==
    /\ config.language = "python"
    /\ config.buildTool = "poetry"
    /\ config.reporting = <<"allure">>
    /\ toggleReporting(config.reporting, "allure") = config.reporting

\* C4 (Spec): a step that changes the language to L leaves buildTool,
\* testRunner and reporting at L's first option, sets uiFramework /
\* apiFramework to L's first framework when the coverage flag is set and
\* leaves it unchanged otherwise; from TypeScript with pnpm to Java the
\* buildTool is maven or gradle.
C4_LanguageChangeResets ==
    [][ config'.language # config.language =>
          LET newOptions == validCombinations[config'.language]
          IN  /\ config'.buildTool = newOptions.buildTools[1]
              /\ config'.testRunner = newOptions.testRunners[1]
              /\ config'.reporting = <<newOptions.reporting[1]>>
              /\ config'.uiFramework = IF config.includeUI
                                       THEN newOptions.uiFrameworks[1]
                                       ELSE config.uiFramework
              /\ config'.apiFramework = IF config.includeAPI
                                        THEN newOptions.apiFrameworks[1]
                                        ELSE config.apiFramework
              /\ (config.language = "typescript" /\ config.buildTool = "pnpm"
                    /\ config'.language = "java")
                 => config'.buildTool \in {"maven", "gradle"}
      ]_vars

\* the language was changed to Java while includeUI was false: the build tool
\* is Java's first one and the TypeScript uiFramework is still in place
C4_Witness ==
    /\ config.language = "java"
    /\ config.buildTool = "maven"
    /\ config.reporting = <<"allure">>
    /\ ~config.includeUI
    /\ config.uiFramework = "playwright"
    /\ config.apiFramework = "rest-assured"

\* C5 (Spec): a configuration with includeUI and includeAPI both false fails
\* the validation of step 2; no step leaves step 2 forwards while both are
\* false, and no state with currentStep = 5 has both false.
C5_CoverageGate ==
    /\ []((~config.includeUI /\ ~config.includeAPI)
            => DOMAIN validateStep(2, config) # {})
    /\ [][ /\ (currentStep = 2 /\ ~config.includeUI /\ ~config.includeAPI)
               => currentStep' <= 2
           /\ currentStep' = 5 => (config'.includeUI \/ config'.includeAPI)
         ]_vars

\* at step 2 both flags were switched off: validation fails and Continue is
\* disabled
C5_Witness ==
    /\ currentStep = 2
    /\ ~config.includeUI
    /\ ~config.includeAPI
    /\ "includeUI" \in DOMAIN validateStep(2, config)
    /\ ~canProceed(currentStep, config)

\* C6 (Spec): at step 5 the projectName handed to generateFiles and to the
\* archive name has at most 50 characters.
C6_NameLengthBound ==
    currentStep = 5 => Len(completeConfig(config).projectName) <= MaxProjectNameLength

\* C7 (Spec): at every step from 2 on the projectName is non-empty and
\* consists of lowercase ASCII letters, digits and hyphens only.
C7_NameIsSlug ==
    currentStep >= 2 =>
        /\ Len(config.projectName) >= 1
        /\ \A i \in 1..Len(config.projectName) :
              config.projectName[i] \in Range(LowerCase) \cup Digits \cup {"-"}

\* "My Project!!" was typed, normalised, and carried to step 5
C7_Witness ==
    /\ currentStep = 5
    /\ config.projectName = <<"m","y","-","p","r","o","j","e","c","t","-">>

\* C8 (GenSpec): generateFolderTree(c) is in ascending lexicographic order
\* and contains no path twice, for every configuration.
C8_SortedNoDuplicates ==
    folderTree # NotComputed =>
        /\ \A i \in 1..(Len(folderTree) - 1) : LexLess(folderTree[i], folderTree[i + 1])
        /\ \A i, j \in 1..Len(folderTree) : i # j => folderTree[i] # folderTree[j]

\* a Java tree was planned, and sorting moved paths away from the push order
C8_Witness ==
    /\ folderTree # NotComputed
    /\ config.language = "java"
    /\ config.includeUI /\ config.includeAPI /\ config.includeCI /\ config.includeDocker
    /\ folderTree # pushedPaths(config)
    /\ Len(folderTree) = Len(pushedPaths(config))

\* C9 (GenSpec): for every valid configuration, every proper prefix of a
\* planned path that ends at a '/' is itself in the plan.
C9_NoOrphans ==
    (folderTree # NotComputed /\ isValidConfig(config)) =>
        \A i \in 1..Len(folderTree) :
            \A k \in 1..(Len(folderTree[i]) - 1) :
                folderTree[i][k] = "/" =>
                    \E j \in 1..Len(folderTree) : folderTree[j] = SubSeq(folderTree[i], 1, k)

\* a valid Java plan with the deepest nesting under src/test/java/com/automation/
C9_Witness ==
    /\ folderTree # NotComputed
    /\ isValidConfig(config)
    /\ config.language = "java"
    /\ config.includeAPI
    /\ \E i \in 1..Len(folderTree) :
          folderTree[i] = config.projectName \o <<"/","s","r","c","/","t","e","s","t","/","j","a","v","a","/","c","o","m","/","a","u","t","o","m","a","t","i","o","n","/","a","p","i","/","P","o","s","t","s","A","p","i","T","e","s","t",".","j","a","v","a">>

\* C10 (ExportSpec): after a failed generateAndDownloadZip call isGenerating
\* is false and the completion state is not shown, whatever attempts came
\* before in the same step-5 session.
C10_FailureResets ==
    zipCall = "rejected" => (~isGenerating /\ ~isComplete)

\* C11 (NameSpec): the name produced by handleNameChange is a fixed point of
\* the normalisation (normalising it again returns it unchanged), and when
\* it is non-empty it consists of lowercase letters, digits and hyphens only.
C11_NormalisationIdempotent ==
    /\ slugify(config.projectName) = config.projectName
    /\ Len(config.projectName) > 0 =>
          \A i \in 1..Len(config.projectName) :
              config.projectName[i] \in Range(LowerCase) \cup Digits \cup {"-"}

\* "My Project!!" was typed: lowercased, the space and both '!' replaced,
\* and the run of two hyphens collapsed
C11_Witness ==
    /\ currentStep = 1
    /\ config.projectName = <<"m","y","-","p","r","o","j","e","c","t","-">>
    /\ slugify(<<"M","y"," ","P","r","o","j","e","c","t","!","!">>) = config.projectName

\* the lists of siblings of a forest: the roots and, recursively, the
\* children of every node
RECURSIVE Levels(_)
Levels(nodes) ==
    {nodes} \cup UNION { Levels(nodes[i].children) : i \in 1..Len(nodes) }

\* C12 as stated (TreeSpec): at every level of buildTree's result the
\* directory nodes come before the file nodes, and within each group the
\* names are in case-sensitive lexicographic (code unit) order, an uppercase
\* initial before a lowercase one.
C12_CaseSensitiveOrder ==
    tree # NoTree =>
        \A level \in Levels(tree) :
            \A i, j \in 1..Len(level) :
                i < j =>
                    /\ level[j].isFolder => level[i].isFolder
                    /\ level[i].isFolder = level[j].isFolder
                         => LexLess(level[i].name, level[j].name)

\* the letters in the order of the host's alphabet: a to z, under haw the
\* vowels first
HostAlphabet ==
    IF locale = "haw"
    THEN << "a", "e", "i", "o", "u", "b", "c", "d", "f", "g", "h", "j", "k",
            "l", "m", "n", "p", "q", "r", "s", "t", "v", "w", "x", "y", "z" >>
    ELSE << "a", "b", "c", "d", "e", "f", "g", "h", "i", "j", "k", "l", "m",
            "n", "o", "p", "q", "r", "s", "t", "u", "v", "w", "x", "y", "z" >>

\* the other characters of the generated names in the hosts' order:
\* punctuation, then digits
NonLetters ==
    << "_", "-", ".", "0", "1", "2", "3", "4", "5", "6", "7", "8", "9" >>

\* the place of a character in the host's order, without regard to case:
\* the punctuation and digits, then the letters of the alphabet
placeOf(ch) ==
    IF \E k \in 1..Len(NonLetters) : NonLetters[k] = ch
    THEN CHOOSE k \in 1..Len(NonLetters) : NonLetters[k] = ch
    ELSE LET lower == IF \E k \in 1..26 : UpperCase[k] = ch
                      THEN LowerCase[CHOOSE k \in 1..26 : UpperCase[k] = ch]
                      ELSE ch
         IN  Len(NonLetters) + (CHOOSE k \in 1..26 : HostAlphabet[k] = lower)

\* the characters of a name that count under the host: all of them, under
\* th those that are not punctuation
counted(name) ==
    IF locale = "th"
    THEN SelectSeq(name, LAMBDA ch : ch \notin {"_", "-", "."})
    ELSE name

\* name a comes before name b in the alphabetical order of the host: at the
\* first place where they differ a has the earlier character, or a ends
Alphabetical(a, b) ==
    LET ca == counted(a)
        cb == counted(b)
    IN  \E k \in 1..Len(cb) :
            /\ \A m \in 1..(k - 1) : m <= Len(ca) /\ placeOf(ca[m]) = placeOf(cb[m])
            /\ k <= Len(ca) => placeOf(ca[k]) < placeOf(cb[k])

\* C12 (TreeSpec), amended: at every level of the tree buildTree returns
\* for generated paths the directory nodes come before the file nodes, and
\* within each group the names are in the alphabetical order of the host's
\* locale, which compares letters without regard to case (README.md comes
\* after package.json, Dockerfile after docker-compose.yml): punctuation,
\* digits, then a to z; under th punctuation is ignored, under haw the
\* vowels come before the consonants.
C12_LocaleOrder ==
    tree # NoTree =>
        \A level \in Levels(tree) :
            \A i, j \in 1..Len(level) :
                i < j =>
                    /\ level[j].isFolder => level[i].isFolder
                    /\ level[i].isFolder = level[j].isFolder
                         => Alphabetical(level[i].name, level[j].name)

\* the names of the nodes of a list of siblings
namesOf(nodes) == [i \in 1..Len(nodes) |-> nodes[i].name]

\* the tree of a TypeScript project with Docker files: the directory tests
\* comes before the file .env.example, docker-compose.yml before Dockerfile
\* and package.json before README.md
C12_Witness ==
    /\ tree # NoTree
    /\ Len(tree) = 1
    /\ LET names == namesOf(tree[1].children)
       IN  \E d, e, c, f, p, r \in 1..Len(names) :
               /\ d < e /\ c < f /\ f < p /\ p < r
               /\ names[d] = <<"t","e","s","t","s">> /\ tree[1].children[d].isFolder
               /\ names[e] = <<".","e","n","v",".","e","x","a","m","p","l","e">> /\ ~tree[1].children[e].isFolder
               /\ names[c] = <<"d","o","c","k","e","r","-","c","o","m","p","o","s","e",".","y","m","l">>
               /\ names[f] = <<"D","o","c","k","e","r","f","i","l","e">>
               /\ names[p] = <<"p","a","c","k","a","g","e",".","j","s","o","n">>
               /\ names[r] = <<"R","E","A","D","M","E",".","m","d">>

\* l with its first k paths moved to the end
rotated(l, k) == SubSeq(l, k + 1, Len(l)) \o SubSeq(l, 1, k)

\* l with the paths at k and k + 1 exchanged
swapped(l, k) ==
    [i \in 1..Len(l) |-> IF i = k THEN l[k + 1] ELSE IF i = k + 1 THEN l[k] ELSE l[i]]

\* l from its last path to its first
reversed(l) == [i \in 1..Len(l) |-> l[Len(l) + 1 - i]]

\* permutations of a list of paths: the reversed list, in which every
\* directory marker comes after the paths below the directory, the list
\* with its files first and its markers last, and the lists with the first
\* paths moved to the end or exchanged with their successor
Rearrangements(l) ==
    { reversed(l),
      SelectSeq(l, LAMBDA p : ~endsWithSlash(p)) \o SelectSeq(l, endsWithSlash) }
    \cup { rotated(l, k) : k \in 1..MaxShift }
    \cup { swapped(l, k) : k \in 1..MaxShift }

\* C13 (TreeSpec): buildTree of a permutation of the list of paths is the
\* forest built from the list itself: same names, same isFolder flags, same
\* order of children.
C13_OrderIndependent ==
    tree # NoTree =>
        \A q \in Rearrangements(folderTree) : buildTree(q) = tree

\* the tree of a Java project was built, the reversed list begins with a
\* file four directories down, and the forest is the same
C13_Witness ==
    /\ tree # NoTree
    /\ config.language = "java"
    /\ reversed(folderTree) # folderTree
    /\ ~endsWithSlash(reversed(folderTree)[1])
    /\ Len(splitFrom(reversed(folderTree)[1], <<>>)) > 4
    /\ buildTree(reversed(folderTree)) = tree

\* the regular files of the plan under a directory
filesUnder(dir) ==
    {p \in Range(folderTree) : startsWith(p, dir) /\ ~isDirectoryMarker(p)}

\* C16 as stated (GenSpec): for every valid configuration of every language
\* the plan contains <projectName>/tests/, contains tests/ui/ exactly when
\* includeUI and tests/api/ exactly when includeAPI, and each of the two
\* subtrees that is present holds between 1 and 3 files.
C16_TestsTree ==
    (folderTree # NotComputed /\ isValidConfig(config)) =>
        LET tests  == config.projectName \o <<"/","t","e","s","t","s","/">>
            uiDir  == config.projectName \o <<"/","t","e","s","t","s","/","u","i","/">>
            apiDir == config.projectName \o <<"/","t","e","s","t","s","/","a","p","i","/">>
        IN  /\ tests \in Range(folderTree)
            /\ uiDir \in Range(folderTree) <=> config.includeUI
            /\ apiDir \in Range(folderTree) <=> config.includeAPI
            /\ uiDir \in Range(folderTree) => Cardinality(filesUnder(uiDir)) \in 1..3
            /\ apiDir \in Range(folderTree) => Cardinality(filesUnder(apiDir)) \in 1..3

\* C16 (GenSpec), amended: what C16 states holds for TypeScript and Python;
\* for Java the plan contains none of tests/, tests/ui/, tests/api/: it
\* contains src/test/java/com/automation/tests/ exactly when includeUI and
\* src/test/java/com/automation/api/ exactly when includeAPI, each with
\* between 1 and 3 files.
C16_TestsTreePerLanguage ==
    (folderTree # NotComputed /\ isValidConfig(config)) =>
        LET tests  == config.projectName \o <<"/","t","e","s","t","s","/">>
            java   == config.projectName \o <<"/","s","r","c","/","t","e","s","t","/","j","a","v","a","/","c","o","m","/","a","u","t","o","m","a","t","i","o","n">>
            uiDir  == IF config.language = "java" THEN java \o <<"/","t","e","s","t","s","/">>
                      ELSE config.projectName \o <<"/","t","e","s","t","s","/","u","i","/">>
            apiDir == IF config.language = "java" THEN java \o <<"/","a","p","i","/">>
                      ELSE config.projectName \o <<"/","t","e","s","t","s","/","a","p","i","/">>
        IN  /\ tests \in Range(folderTree) <=> config.language # "java"
            /\ config.language = "java" =>
                  /\ config.projectName \o <<"/","t","e","s","t","s","/","u","i","/">> \notin Range(folderTree)
                  /\ config.projectName \o <<"/","t","e","s","t","s","/","a","p","i","/">> \notin Range(folderTree)
            /\ uiDir \in Range(folderTree) <=> config.includeUI
            /\ apiDir \in Range(folderTree) <=> config.includeAPI
            /\ uiDir \in Range(folderTree) => Cardinality(filesUnder(uiDir)) \in 1..3
            /\ apiDir \in Range(folderTree) => Cardinality(filesUnder(apiDir)) \in 1..3

\* a valid Python plan with API tests only: tests/api/ holds three files and
\* there is no tests/ui/
C16_Witness ==
    /\ folderTree # NotComputed
    /\ isValidConfig(config)
    /\ config.language = "python"
    /\ config.includeAPI /\ ~config.includeUI
    /\ Cardinality(filesUnder(config.projectName \o <<"/","t","e","s","t","s","/","a","p","i","/">>)) = 3
    /\ config.projectName \o <<"/","t","e","s","t","s","/","u","i","/">> \notin Range(folderTree)

\* C17 (GenSpec): every plan contains the root directory, README.md and
\* .env.example; it contains .gitignore exactly when initGit,
\* .github/workflows/tests.yml exactly when includeCI, and Dockerfile and
\* docker-compose.yml exactly when includeDocker.
C17_CommonPaths ==
    folderTree # NotComputed =>
        LET has(suffix) == (config.projectName \o suffix) \in Range(folderTree)
        IN  /\ has(<<"/">>)
            /\ has(<<"/","R","E","A","D","M","E",".","m","d">>)
            /\ has(<<"/",".","e","n","v",".","e","x","a","m","p","l","e">>)
            /\ has(<<"/",".","g","i","t","i","g","n","o","r","e">>) <=> config.initGit
            /\ has(<<"/",".","g","i","t","h","u","b","/","w","o","r","k","f","l","o","w","s","/","t","e","s","t","s",".","y","m","l">>) <=> config.includeCI
            /\ has(<<"/","D","o","c","k","e","r","f","i","l","e">>) <=> config.includeDocker
            /\ has(<<"/","d","o","c","k","e","r","-","c","o","m","p","o","s","e",".","y","m","l">>) <=> config.includeDocker

\* a plan with Docker files and without .gitignore and without the workflow
C17_Witness ==
    /\ folderTree # NotComputed
    /\ ~config.initGit /\ ~config.includeCI /\ config.includeDocker
    /\ (config.projectName \o <<"/","D","o","c","k","e","r","f","i","l","e">>) \in Range(folderTree)
    /\ (config.projectName \o <<"/",".","g","i","t","i","g","n","o","r","e">>) \notin Range(folderTree)

\* C18 (GenSpec): the plan contains config/dev.json, config/stage.json and
\* config/prod.json exactly when the language is typescript, whatever
\* includeEnvConfig is; for Java and Python no path lies under
\* <projectName>/config/.
C18_EnvConfigPaths ==
    folderTree # NotComputed =>
        LET has(suffix) == (config.projectName \o suffix) \in Range(folderTree)
        IN  /\ has(<<"/","c","o","n","f","i","g","/","d","e","v",".","j","s","o","n">>) <=> config.language = "typescript"
            /\ has(<<"/","c","o","n","f","i","g","/","s","t","a","g","e",".","j","s","o","n">>) <=> config.language = "typescript"
            /\ has(<<"/","c","o","n","f","i","g","/","p","r","o","d",".","j","s","o","n">>) <=> config.language = "typescript"
            /\ config.language # "typescript" =>
                  \A i \in 1..Len(folderTree) :
                      ~startsWith(folderTree[i], config.projectName \o <<"/","c","o","n","f","i","g","/">>)

\* a TypeScript plan made with includeEnvConfig switched off: the three
\* files are planned all the same
C18_Witness ==
    /\ folderTree # NotComputed
    /\ config.language = "typescript"
    /\ ~config.includeEnvConfig
    /\ (config.projectName \o <<"/","c","o","n","f","i","g","/","p","r","o","d",".","j","s","o","n">>) \in Range(folderTree)

\* the manifest files that generateFolderTree pushes in each language branch
ManifestFiles ==
    [typescript |-> { <<"/","p","a","c","k","a","g","e",".","j","s","o","n">> },
     java       |-> { <<"/","p","o","m",".","x","m","l">>, <<"/","b","u","i","l","d",".","g","r","a","d","l","e">>, <<"/","s","e","t","t","i","n","g","s",".","g","r","a","d","l","e">> },
     python     |-> { <<"/","r","e","q","u","i","r","e","m","e","n","t","s",".","t","x","t">>, <<"/","p","y","p","r","o","j","e","c","t",".","t","o","m","l">> }]

\* C19 (GenSpec): the plan of the Python/pip configuration named demo with
\* UI and API coverage contains demo/requirements.txt, demo/tests/ui/,
\* demo/tests/api/ and demo/src/pages/ and neither demo/pom.xml nor
\* demo/package.json; and no plan contains a manifest file of a language
\* other than its own.
C19_PythonScenario ==
    folderTree # NotComputed =>
        /\ ( /\ config.projectName = <<"d","e","m","o">>
             /\ config.language = "python" /\ config.buildTool = "pip"
             /\ config.includeUI /\ config.includeAPI )
           => /\ { <<"d","e","m","o","/","r","e","q","u","i","r","e","m","e","n","t","s",".","t","x","t">>, <<"d","e","m","o","/","t","e","s","t","s","/","u","i","/">>,
                   <<"d","e","m","o","/","t","e","s","t","s","/","a","p","i","/">>, <<"d","e","m","o","/","s","r","c","/","p","a","g","e","s","/">> } \subseteq Range(folderTree)
              /\ <<"d","e","m","o","/","p","o","m",".","x","m","l">> \notin Range(folderTree)
              /\ <<"d","e","m","o","/","p","a","c","k","a","g","e",".","j","s","o","n">> \notin Range(folderTree)
        /\ \A other \in Languages \ {config.language} :
              \A m \in ManifestFiles[other] :
                  (config.projectName \o m) \notin Range(folderTree)

\* the scenario's configuration was planned
C19_Witness ==
    /\ folderTree # NotComputed
    /\ config.projectName = <<"d","e","m","o">>
    /\ config.language = "python" /\ config.buildTool = "pip"
    /\ config.includeUI /\ config.includeAPI
    /\ config.uiFramework = "playwright" /\ config.apiFramework = "requests"
    /\ config.testRunner = "pytest" /\ config.reporting = <<"pytest-html">>
    /\ <<"d","e","m","o","/","r","e","q","u","i","r","e","m","e","n","t","s",".","t","x","t">> \in Range(folderTree)

\* the steps of the generated workflow: the content of the entry
\* <projectName>/.github/workflows/tests.yml
workflowSteps ==
    LET i == CHOOSE k \in 1..Len(files) :
                 files[k].path = config.projectName \o <<"/",".","g","i","t","h","u","b","/","w","o","r","k","f","l","o","w","s","/","t","e","s","t","s",".","y","m","l">>
    IN  files[i].content

\* a step that runs a command to execute the tests
isTestStep(s) == s.name = "Run tests" /\ Len(s.run) > 0

\* a step that uploads artifacts
isUploadStep(s) == s.uses = "actions/upload-artifact@v4"

\* a step whose command installs Playwright's browsers: the words
\* "playwright install" occur in it
isBrowserInstallStep(s) ==
    \E k \in 1..(Len(s.run) - 1) : s.run[k] = "playwright" /\ s.run[k + 1] = "install"

\* C14 (GenSpec): with includeCI, the workflow of every language has a step
\* that executes the tests, followed by an artifact-upload step whose
\* condition is always().
C14_TestThenUpload ==
    (files # NotComputed /\ config.includeCI) =>
        \E i, j \in 1..Len(workflowSteps) :
            /\ i < j
            /\ isTestStep(workflowSteps[i])
            /\ isUploadStep(workflowSteps[j])
            /\ workflowSteps[j].if = "always()"

\* the Java workflow for Gradle: ./gradlew test, then the upload
C14_Witness ==
    /\ files # NotComputed
    /\ config.includeCI
    /\ config.language = "java" /\ config.buildTool = "gradle"
    /\ \E i \in 1..(Len(workflowSteps) - 1) :
          /\ workflowSteps[i].run = <<"./gradlew", "test">>
          /\ workflowSteps[i + 1].if = "always()"

\* C15 (GenSpec): with includeCI, the workflow of every language (for every
\* valid configuration) has a browser-install step when includeUI and none
\* when not.
C15_BrowserInstall ==
    (files # NotComputed /\ isValidConfig(config) /\ config.includeCI) =>
        ((\E i \in 1..Len(workflowSteps) : isBrowserInstallStep(workflowSteps[i]))
            <=> config.includeUI)

\* C21 (ExportSpec): every entry handed to the exporter has a path without
\* a leading '/', whose first segment is the configuration's projectName
\* and which does not end in '/'; no two entries of a hand-off share a
\* path; and the archive name is <projectName>.zip for the same projectName.
C21_ArchivePaths ==
    \A h \in handed :
        LET projectName == completeConfig(config).projectName
        IN  /\ \A i \in 1..Len(h.entries) :
                  LET path == h.entries[i].path
                  IN  /\ Len(path) > 0
                      /\ path[1] # "/"
                      /\ splitFrom(path, <<>>)[1] = projectName
                      /\ path[Len(path)] # "/"
            /\ \A i, j \in 1..Len(h.entries) :
                  i # j => h.entries[i].path # h.entries[j].path
            /\ h.archive = projectName \o <<".","z","i","p">>

\* the Java project my-project- with its workflow was handed over
C21_Witness ==
    /\ config.language = "java"
    /\ config.includeCI
    /\ config.projectName = <<"m","y","-","p","r","o","j","e","c","t","-">>
    /\ \E h \in handed :
          /\ h.archive = <<"m","y","-","p","r","o","j","e","c","t","-",".","z","i","p">>
          /\ \E i \in 1..Len(h.entries) :
                h.entries[i].path = <<"m","y","-","p","r","o","j","e","c","t","-","/",".","g","i","t","h","u","b","/","w","o","r","k","f","l","o","w","s","/","t","e","s","t","s",".","y","m","l">>

\* the content of the entry <projectName><suffix> of generateFiles
contentAt(suffix) ==
    LET i == CHOOSE k \in 1..Len(files) : files[k].path = config.projectName \o suffix
    IN  files[i].content

hasEntry(suffix) ==
    \E k \in 1..Len(files) : files[k].path = config.projectName \o suffix

\* C22 (GenSpec): for every valid configuration, package.json declares axios
\* exactly when apiFramework is axios, and requirements.txt and
\* pyproject.toml declare requests only when apiFramework is requests.
C22_HttpClientDependency ==
    (files # NotComputed /\ isValidConfig(config)) =>
        /\ hasEntry(<<"/","p","a","c","k","a","g","e",".","j","s","o","n">>) =>
              ("axios" \in contentAt(<<"/","p","a","c","k","a","g","e",".","j","s","o","n">>).devDependencies
                  <=> config.apiFramework = "axios")
        /\ hasEntry(<<"/","r","e","q","u","i","r","e","m","e","n","t","s",".","t","x","t">>) =>
              ("requests" \in contentAt(<<"/","r","e","q","u","i","r","e","m","e","n","t","s",".","t","x","t">>).dependencies
                  => config.apiFramework = "requests")
        /\ hasEntry(<<"/","p","y","p","r","o","j","e","c","t",".","t","o","m","l">>) =>
              ("requests" \in contentAt(<<"/","p","y","p","r","o","j","e","c","t",".","t","o","m","l">>).dependencies
                  => config.apiFramework = "requests")

\* the nodes of a forest, at every depth
RECURSIVE Nodes(_)
Nodes(nodes) ==
    {nodes[i] : i \in 1..Len(nodes)}
    \cup UNION { Nodes(nodes[i].children) : i \in 1..Len(nodes) }

\* the list without its directory markers
withoutMarkers(l) == SelectSeq(l, LAMBDA p : ~endsWithSlash(p))

\* C23 (TreeSpec): in buildTree's result no node with children has
\* isFolder = false: every segment that is not the final component of some
\* path is a directory node, with the directory markers in the list or
\* without them, and whatever the order of the list.
C23_InnerNodesAreFolders ==
    tree # NoTree =>
        \A q \in {folderTree, withoutMarkers(folderTree)}
                 \cup Rearrangements(folderTree)
                 \cup Rearrangements(withoutMarkers(folderTree)) :
            \A n \in Nodes(buildTree(q)) : Len(n.children) > 0 => n.isFolder

\* the tree of the list without its markers has directories below the
\* root, each with children, though no path of the list ends with '/'
C23_Witness ==
    /\ tree # NoTree
    /\ Len(withoutMarkers(folderTree)) < Len(folderTree)
    /\ LET t == buildTree(reversed(withoutMarkers(folderTree)))
       IN  /\ Len(t) = 1
           /\ t[1].isFolder
           /\ \E i \in 1..Len(t[1].children) :
                  /\ t[1].children[i].isFolder
                  /\ Len(t[1].children[i].children) > 0

\* C24 (ExportSpec): within one export attempt saveAs is called at most
\* once, and only when the entries were added to the archive and the
\* compression completed successfully; while the compression has not
\* completed, and after it failed, saveAs was not called for that attempt.
C24_NoPartialDownload ==
    /\ saveCalls <= 1
    /\ saveCalls = 1 =>
          /\ compressed
          /\ zipCall \in {"saved", "failed", "fulfilled", "rejected"}
          /\ generateAndDownloadZip(completeConfig(config)) \in handed
    /\ ~compressed => saveCalls = 0

\* a second attempt of a session failed in the compression after the first
\* one had saved its archive: saveAs was not called for the failed attempt
C24_Witness ==
    /\ zipCall = "rejected"
    /\ ~compressed
    /\ isComplete
    /\ saveCalls = 0
    /\ handed # {}

\* C25 (ExportLiveSpec): provided the archive call settles, every attempt
\* that starts ends: isGenerating is true from the start of the attempt and
\* false once handleGenerate has resumed after the resolved or rejected
\* call; after a success isComplete is true; and whenever no attempt is
\* under way at step 5 a click starts a fresh one.
C25_AttemptEnds ==
    /\ isGenerating ~> ~isGenerating
    /\ [][ /\ (zipCall # "pending" /\ zipCall' = "pending") => isGenerating'
           /\ (zipCall \in {"saved", "failed"} /\ zipCall' \in {"fulfilled", "rejected"})
                => ~isGenerating'
           /\ (zipCall = "saved" /\ zipCall' # "saved")
                => \/ zipCall' = "fulfilled" /\ isComplete'
                   \/ currentStep' # 5
         ]_vars
    /\ [](zipCall \in {"fulfilled", "rejected"} => ~isGenerating)
    /\ [](zipCall = "fulfilled" => isComplete)
    /\ []((currentStep = 5 /\ zipCall \in {"fulfilled", "rejected"})
            => ENABLED HandleGenerate)

\* an attempt started and ended in a failure, no earlier success
C25_Witness ==
    /\ currentStep = 5
    /\ zipCall = "rejected"
    /\ ~isGenerating
    /\ ~isComplete

\* C26 (ExportSpec): at most one generateAndDownloadZip call is in flight at
\* any time.
C26_SingleInFlight ==
    (IF zipCall = "pending" THEN 1 ELSE 0) + orphanCalls <= 1

\* C27 (Spec): currentStep is always between 1 and 5; a step that changes
\* it moves it forward by exactly one, and then the validation of the step
\* left passes, or moves it to a strictly earlier step (never below 1); and
\* at step 5 the validations of steps 1 and 2 pass on the configuration in
\* force.
C27_StepNavigation ==
    /\ [](currentStep \in 1..5)
    /\ [][ currentStep' # currentStep =>
             \/ /\ currentStep' = currentStep + 1
                /\ DOMAIN validateStep(currentStep, config) = {}
                /\ config' = config
             \/ /\ currentStep' < currentStep
                /\ currentStep' >= 1
         ]_vars
    /\ [](currentStep = 5 =>
            /\ DOMAIN validateStep(1, config) = {}
            /\ DOMAIN validateStep(2, config) = {})

\* the wizard had passed step 2 (API coverage was switched on there), went
\* back to step 1 and the name was emptied: validation fails and Continue is
\* disabled
C27_Witness ==
    /\ currentStep = 1
    /\ config.includeAPI
    /\ Len(config.projectName) = 0
    /\ "projectName" \in DOMAIN validateStep(currentStep, config)
    /\ ~canProceed(currentStep, config)

\* the test runners of the TestRunner enumeration
TestRunners == {"playwright-test", "junit", "testng", "pytest"}

\* C28 (GenSpec): changing includeEnvConfig and/or testRunner in a
\* configuration changes neither the result of generateFolderTree nor the
\* (path, content) entries of generateFiles.
C28_NoInfluence ==
    \A env \in BOOLEAN, runner \in TestRunners :
        LET other == [config EXCEPT !.includeEnvConfig = env, !.testRunner = runner]
        IN  /\ folderTree # NotComputed => generateFolderTree(other) = folderTree
            /\ files # NotComputed => generateFiles(other) = files

\* the files of a Java project with the workflow were generated for JUnit;
\* the entries for TestNG with the other includeEnvConfig are the same,
\* pom.xml included
C28_Witness ==
    /\ files # NotComputed
    /\ config.language = "java" /\ config.buildTool = "maven"
    /\ config.testRunner = "junit"
    /\ config.includeCI
    /\ hasEntry(<<"/","p","o","m",".","x","m","l">>)
    /\ generateFiles([config EXCEPT !.includeEnvConfig = ~config.includeEnvConfig,
                                     !.testRunner = "testng"]) = files

\* C29 (GenSpec): for every valid configuration the install command of the
\* Next Steps of StepGenerate is the install command that generateReadme
\* writes into README.md.
C29_InstallCommandsAgree ==
    (files # NotComputed /\ isValidConfig(config)) =>
        nextStepsInstallCommand(config) = contentAt(<<"/","R","E","A","D","M","E",".","m","d">>).installCmd

\* the configuration after a click on the card of lang
afterLanguageClick(lang) == merge(config, handleLanguageChange(config, lang))

\* the reset of C30, between a configuration and the one after the click
isLanguageReset(before, after) ==
    LET newOptions == validCombinations[after.language]
    IN  /\ after.buildTool = newOptions.buildTools[1]
        /\ after.testRunner = newOptions.testRunners[1]
        /\ after.reporting = <<newOptions.reporting[1]>>
        /\ before.includeUI => after.uiFramework = newOptions.uiFrameworks[1]
        /\ before.includeAPI => after.apiFramework = newOptions.apiFrameworks[1]
        /\ ~before.includeUI => after.uiFramework = before.uiFramework
        /\ ~before.includeAPI => after.apiFramework = before.apiFramework
        /\ \A k \in DOMAIN before \ {"language", "buildTool", "testRunner",
                                       "reporting", "uiFramework", "apiFramework"} :
              after[k] = before[k]

\* C30 (Spec): every click on a language card, the card of the selected
\* language included, leaves buildTool, testRunner and reporting at the
\* first option of the clicked language, sets uiFramework / apiFramework to
\* its first framework when the coverage flag is set, and changes no other
\* field of the configuration.
C30_UnconditionalReset ==
    /\ [](currentStep = 3 =>
            \A lang \in Languages :
                /\ afterLanguageClick(lang).language = lang
                /\ isLanguageReset(config, afterLanguageClick(lang)))
    /\ [][HandleLanguageChange => isLanguageReset(config, config')]_vars

\* at step 3 with the second build tool and two reporting options chosen:
\* a click on the selected language's card replaces both
C30_Witness ==
    /\ currentStep = 3
    /\ config.language = "java"
    /\ config.buildTool = "gradle"
    /\ Len(config.reporting) = 2
    /\ handleLanguageChange(config, config.language).buildTool = "maven"
    /\ handleLanguageChange(config, config.language).reporting = <<"allure">>

====
